---- MODULE Spec2Model ----
(***************************************************************************)
(* Naija Whot: the authoritative game engine of the whot-server edge       *)
(* function (supabase/functions/whot-server/index.ts) and its shared rules *)
(* (supabase/functions/_shared/whot-rules.ts), with the room store (the    *)
(* rooms table) and the in-process write-debounce cache.                   *)
(***************************************************************************)
EXTENDS Integers, Sequences, FiniteSets, TLC

\* JavaScript null and undefined, kept apart as the code keeps them apart.
Null == "null"
Undefined == "undefined"

----------------------------------------------------------------------------
\* Cards and the deck (whot-rules.ts)

Shapes == <<"circle", "triangle", "cross", "square", "star">>

circleNumbers == <<1, 2, 3, 4, 5, 7, 8, 10, 11, 12, 13, 14>>
triangleNumbers == <<1, 2, 3, 4, 5, 7, 8, 10, 11, 12, 13, 14>>
crossNumbers == <<1, 2, 3, 5, 7, 10, 11, 13, 14>>
squareNumbers == <<1, 2, 3, 5, 7, 10, 11, 13, 14>>
starNumbers == <<1, 2, 3, 4, 5, 7, 8>>

PICK_TWO == 2
PICK_THREE == 5
HOLD_ON == 1
SUSPENSION == 8
GENERAL_MARKET == 14
WHOT == 20
WhotCount == 5
CardsPerPlayer == 6

\* deck.push({ id: `card-${id++}`, shape, number }) for each number of a suit;
\* firstId is the value of the running id when the suit starts.
SuitCards(shape, numbers, firstId) ==
  [i \in 1..Len(numbers) |->
     [id |-> firstId + i - 1, shape |-> shape, number |-> numbers[i]]]

\* The five Whot cards: shape 'circle' as a placeholder, number 20.
WhotCards(firstId) ==
  [i \in 1..WhotCount |-> [id |-> firstId + i - 1, shape |-> "circle", number |-> WHOT]]

\* A deck built like createDeck but with one Whot card fewer.
createDeckShort ==
  LET c == SuitCards("circle", circleNumbers, 1)
      t == c \o SuitCards("triangle", triangleNumbers, Len(c) + 1)
      x == t \o SuitCards("cross", crossNumbers, Len(t) + 1)
      s == x \o SuitCards("square", squareNumbers, Len(x) + 1)
      r == s \o SuitCards("star", starNumbers, Len(s) + 1)
  IN  r \o SubSeq(WhotCards(Len(r) + 1), 1, WhotCount - 1)

createDeck ==
  LET c == SuitCards("circle", circleNumbers, 1)
      t == c \o SuitCards("triangle", triangleNumbers, Len(c) + 1)
      x == t \o SuitCards("cross", crossNumbers, Len(t) + 1)
      s == x \o SuitCards("square", squareNumbers, Len(x) + 1)
      r == s \o SuitCards("star", starNumbers, Len(s) + 1)
  IN  r \o WhotCards(Len(r) + 1)

\* Sequence helpers standing for Array.prototype.slice / filter / findIndex.
Slice(seq, from, to) ==
  \* JavaScript slice(from, to) with 0-based from (inclusive) and to (exclusive)
  IF from >= Len(seq) \/ to <= from THEN <<>>
  ELSE SubSeq(seq, from + 1, IF to > Len(seq) THEN Len(seq) ELSE to)

FilterOutId(cards, cid) == SelectSeq(cards, LAMBDA c : c.id # cid)

RECURSIVE SeqSum(_)
SeqSum(s) == IF s = <<>> THEN 0 ELSE Head(s) + SeqSum(Tail(s))

Reverse(seq) == [i \in 1..Len(seq) |-> seq[Len(seq) + 1 - i]]

\* The card of the deck with a given id.
CardById(cid) == createDeck[cid]

----------------------------------------------------------------------------
\* Rules (game-types.ts DEFAULT_RULES) and partial rule objects

DEFAULT_RULES ==
  [pickTwo |-> TRUE, pickThree |-> FALSE, defendPick |-> FALSE, winWithHoldOn |-> FALSE]

\* { ...base, ...partial }: field-by-field merge of a partial rules object.
MergeRules(base, partial) ==
  [k \in DOMAIN base |-> IF k \in DOMAIN partial THEN partial[k] ELSE base[k]]

----------------------------------------------------------------------------
\* Dealing and the initial aggregate (whot-rules.ts)

getNextPlayerIndex(currentIndex, playerCount) == (currentIndex + 1) % playerCount

\* players.findIndex(p => p.id === id): 0-based, -1 when absent.
findIndex(players, pid) ==
  IF \E i \in 1..Len(players) : players[i].id = pid
  THEN (CHOOSE i \in 1..Len(players) :
          players[i].id = pid /\ \A j \in 1..(i - 1) : players[j].id # pid) - 1
  ELSE -1

\* The while loop of dealCards: startCard is deck[startIdx] (0-based) and
\* deckIndex is already past it; skip forward while the candidate is a Whot.
RECURSIVE SkipWhotStart(_, _, _)
SkipWhotStart(deck, startIdx, deckIndex) ==
  IF deck[startIdx + 1].number = WHOT /\ deckIndex < Len(deck)
  THEN SkipWhotStart(deck, deckIndex, deckIndex + 1)
  ELSE [startCard |-> deck[startIdx + 1], deckIndex |-> deckIndex]

dealCards(deck, playerCount, cardsPerPlayer) ==
  LET hands == [i \in 1..playerCount |->
                  Slice(deck, (i - 1) * cardsPerPlayer, i * cardsPerPlayer)]
      first == playerCount * cardsPerPlayer
      pick  == SkipWhotStart(deck, first, first + 1)
  IN  [hands |-> hands,
       remainingDeck |-> Slice(deck, pick.deckIndex, Len(deck)),
       startCard |-> pick.startCard]

\* A start-card effect that activates the pick effects without a chain.
applyStartCardEffectNoChain(state) ==
  LET currentCard == state.currentCard
      rules == state.rules
  IN  IF currentCard.number = PICK_TWO /\ rules.pickTwo
      THEN [state EXCEPT !.effectActive = "pick_two"]
      ELSE IF currentCard.number = PICK_THREE /\ rules.pickThree
      THEN [state EXCEPT !.effectActive = "pick_three"]
      ELSE state

applyStartCardEffect(state) ==
  LET currentCard == state.currentCard
      rules == state.rules
  IN  IF currentCard.number = PICK_TWO /\ rules.pickTwo
      THEN [state EXCEPT !.effectActive = "pick_two", !.pickTwoChain = 1]
      ELSE IF currentCard.number = PICK_THREE /\ rules.pickThree
      THEN [state EXCEPT !.effectActive = "pick_three", !.pickThreeChain = 1]
      ELSE IF currentCard.number = GENERAL_MARKET
      THEN [state EXCEPT !.effectActive = "general_market",
                         !.generalMarketInitiator = "dealer",
                         !.marketDue = [i \in 1..Len(state.players) |-> state.players[i].id]]
      ELSE IF currentCard.number = SUSPENSION
      THEN [state EXCEPT !.currentPlayerIndex =
                           getNextPlayerIndex(state.currentPlayerIndex, Len(state.players))]
      ELSE state

\* createInitialGameState with the shuffled deck made explicit: `shuffled` is
\* the outcome of shuffleDeck(createDeck()).  An absent optional field
\* (generalMarketInitiator, pickEffectInitiator) is Undefined; an absent
\* marketDue is the empty list, which is how every reader treats it
\* (marketDue?.filter(...) || []).
createInitialGameState(players, rules, shuffled) ==
  LET d == dealCards(shuffled, Len(players), CardsPerPlayer)
  IN  applyStartCardEffect(
        [players |-> [i \in 1..Len(players) |->
                        [id |-> players[i], cardCount |-> Len(d.hands[i]),
                         isHost |-> (i = 1), isReady |-> FALSE]],
         currentCard |-> d.startCard,
         currentPlayerIndex |-> 0,
         direction |-> 1,
         selectedShape |-> Null,
         gameStarted |-> TRUE,
         winner |-> Null,
         deckCount |-> Len(d.remainingDeck),
         pickTwoChain |-> 0,
         pickThreeChain |-> 0,
         effectActive |-> Null,
         generalMarketInitiator |-> Undefined,
         marketDue |-> <<>>,
         pickEffectInitiator |-> Undefined,
         marketPile |-> d.remainingDeck,
         discardPile |-> <<d.startCard>>,
         playerHands |-> [p \in {players[i] : i \in 1..Len(players)} |->
                            d.hands[CHOOSE i \in 1..Len(players) : players[i] = p]],
         sessionWins |-> <<>>,
         rules |-> MergeRules(DEFAULT_RULES, rules),
         rulesLocked |-> FALSE,
         totalTurns |-> 0])

----------------------------------------------------------------------------
\* Legality and card effects (whot-rules.ts)

canPlayCard(card, currentCard, selectedShape) ==
  IF card.number = WHOT THEN TRUE
  ELSE IF currentCard.number = WHOT /\ selectedShape # Null
  THEN card.shape = selectedShape \/ card.number = WHOT
  ELSE card.shape = currentCard.shape \/ card.number = currentCard.number

canDefendAgainstPick(card, state) ==
  IF ~state.rules.defendPick THEN FALSE
  ELSE IF state.effectActive = "pick_two" /\ card.number = PICK_TWO THEN TRUE
  ELSE IF state.effectActive = "pick_three" /\ card.number = PICK_THREE
          /\ state.rules.pickThree THEN TRUE
  ELSE FALSE

getPlayableCards(hand, currentCard, selectedShape, state) ==
  IF state.effectActive \in {"pick_two", "pick_three"}
  THEN IF state.rules.defendPick
       THEN SelectSeq(hand, LAMBDA card : canDefendAgainstPick(card, state))
       ELSE <<>>
  ELSE SelectSeq(hand, LAMBDA card : canPlayCard(card, currentCard, selectedShape))

\* const skipCount = 1 of the suspension case.
skipCount == 1

RECURSIVE SkipPlayers(_, _, _)
SkipPlayers(index, playerCount, n) ==
  IF n = 0 THEN index
  ELSE SkipPlayers(getNextPlayerIndex(index, playerCount), playerCount, n - 1)

\* The ids of all players other than playerId, last seat first.
OtherPlayerIdsReversed(players, playerId) ==
  LET others == SelectSeq(players, LAMBDA p : p.id # playerId)
  IN  [i \in 1..Len(others) |-> others[Len(others) + 1 - i].id]

\* The ids of all players other than playerId, in seat order.
OtherPlayerIds(players, playerId) ==
  LET others == SelectSeq(players, LAMBDA p : p.id # playerId)
  IN  [i \in 1..Len(others) |-> others[i].id]

applyCardEffect(state, card, playerId) ==
  LET n == Len(state.players)
      next == getNextPlayerIndex(state.currentPlayerIndex, n)
  IN  CASE card.number = HOLD_ON -> state
        [] card.number = PICK_TWO ->
             IF state.rules.pickTwo
             THEN [state EXCEPT !.pickTwoChain = state.pickTwoChain + 1,
                                !.effectActive = "pick_two",
                                !.currentPlayerIndex = next]
             ELSE [state EXCEPT !.currentPlayerIndex = next]
        [] card.number = PICK_THREE ->
             IF state.rules.pickThree
             THEN [state EXCEPT !.pickThreeChain = state.pickThreeChain + 1,
                                !.effectActive = "pick_three",
                                !.currentPlayerIndex = next]
             ELSE [state EXCEPT !.currentPlayerIndex = next]
        [] card.number = SUSPENSION ->
             [state EXCEPT !.currentPlayerIndex =
                getNextPlayerIndex(SkipPlayers(state.currentPlayerIndex, n, skipCount), n)]
        [] card.number = GENERAL_MARKET ->
             LET due == OtherPlayerIds(state.players, playerId)
             IN  [state EXCEPT !.effectActive = "general_market",
                               !.generalMarketInitiator = playerId,
                               !.marketDue = due,
                               !.currentPlayerIndex =
                                  IF Len(due) > 0 THEN findIndex(state.players, due[1])
                                  ELSE state.currentPlayerIndex]
        [] OTHER ->
             IF state.effectActive = Null
             THEN [state EXCEPT !.currentPlayerIndex = next,
                                !.pickTwoChain = 0, !.pickThreeChain = 0]
             ELSE [state EXCEPT !.currentPlayerIndex = next]

----------------------------------------------------------------------------
\* Request handlers as functions of the loaded aggregate (whot-server/index.ts).
\* Each yields the HTTP outcome and, when it mutates, the aggregate to save.

Reject(status, error) == [ok |-> FALSE, status |-> status, error |-> error]

\* The copy sent out in place of the aggregate: { ...state, playerHands: {}, marketPile: [] }.
PublicState(state) == [state EXCEPT !.playerHands = <<>>, !.marketPile = <<>>]

HandHasId(hand, cid) == \E i \in 1..Len(hand) : hand[i].id = cid

\* Effect restriction of play-card (pick_two / pick_three active): the state
\* the handler goes on with, or Null when the request is refused ("Must draw").
PickRestriction(state, playerId, card) ==
  IF state.effectActive \in {"pick_two", "pick_three"}
  THEN LET hasInitiatorTracking == state.pickEffectInitiator # Undefined
           isInitiator == hasInitiatorTracking /\ state.pickEffectInitiator = playerId
       IN  IF isInitiator
           THEN [ok |-> TRUE,
                 state |-> [state EXCEPT !.effectActive = Null, !.pickTwoChain = 0,
                                         !.pickThreeChain = 0,
                                         !.pickEffectInitiator = Undefined]]
           ELSE IF ~hasInitiatorTracking
           THEN [ok |-> TRUE,
                 state |-> [state EXCEPT !.effectActive = Null, !.pickTwoChain = 0,
                                         !.pickThreeChain = 0]]
           ELSE IF state.rules.defendPick /\ canDefendAgainstPick(card, state)
           THEN [ok |-> TRUE, state |-> state]
           ELSE [ok |-> FALSE, state |-> state]
  ELSE [ok |-> TRUE, state |-> state]

\* "GENERAL MARKET: Initialize Manual Queue" of play-card.
MarketQueue(state, playerId) ==
  IF state.effectActive = "general_market"
  THEN LET due == OtherPlayerIds(state.players, playerId)
       IN  IF Len(due) > 0
           THEN [state EXCEPT !.marketDue = due,
                              !.generalMarketInitiator = playerId,
                              !.currentPlayerIndex =
                                 IF findIndex(state.players, due[1]) # -1
                                 THEN findIndex(state.players, due[1])
                                 ELSE state.currentPlayerIndex]
           ELSE [state EXCEPT !.marketDue = due,
                              !.generalMarketInitiator = playerId,
                              !.effectActive = Null]
  ELSE state

\* sessionWins[playerId] = (sessionWins[playerId] || 0) + 1
IncrementWins(wins, playerId) ==
  [p \in (DOMAIN wins) \cup {playerId} |->
     IF p = playerId THEN (IF p \in DOMAIN wins THEN wins[p] ELSE 0) + 1 ELSE wins[p]]

\* A winner check without the Hold On exception: whoever empties the hand wins.
WinnerCheckAlways(state, playerId, card) ==
  IF Len(state.playerHands[playerId]) = 0
  THEN [state EXCEPT !.winner = playerId,
                     !.sessionWins = IncrementWins(state.sessionWins, playerId)]
  ELSE state

\* "Check Card Counts & Winner" of play-card and "Check for win" of auto-play.
WinnerCheck(state, playerId, card) ==
  IF Len(state.playerHands[playerId]) = 0
  THEN IF card.number = HOLD_ON /\ ~state.rules.winWithHoldOn
       THEN state
       ELSE [state EXCEPT !.winner = playerId,
                          !.sessionWins = IncrementWins(state.sessionWins, playerId)]
  ELSE state

\* A move that shows the card on the table but does not put it on the pile.
RemoveAndShow(state, playerId, playerIndex, card, selectedShape) ==
  LET hand == FilterOutId(state.playerHands[playerId], card.id)
  IN  [state EXCEPT !.playerHands[playerId] = hand,
                    !.players[playerIndex + 1].cardCount = Len(hand),
                    !.currentCard = card,
                    !.selectedShape = IF selectedShape # Null THEN selectedShape ELSE Null,
                    !.rulesLocked = TRUE,
                    !.totalTurns = state.totalTurns + 1]

\* "Everything OK - Apply Move": card removal and bookkeeping of play-card.
RemoveAndDiscard(state, playerId, playerIndex, card, selectedShape) ==
  LET hand == FilterOutId(state.playerHands[playerId], card.id)
  IN  [state EXCEPT !.playerHands[playerId] = hand,
                    !.players[playerIndex + 1].cardCount = Len(hand),
                    !.currentCard = card,
                    !.discardPile = Append(state.discardPile, card),
                    !.selectedShape = IF selectedShape # Null THEN selectedShape ELSE Null,
                    !.rulesLocked = TRUE,
                    !.totalTurns = state.totalTurns + 1]

\* POST */game/play-card on a loaded aggregate.
playCard(state, playerId, card, selectedShape) ==
  LET playerIndex == findIndex(state.players, playerId)
  IN  IF state.winner # Null THEN Reject(400, "Game is over")
      ELSE IF playerIndex = -1 THEN Reject(404, "Player not found")
      ELSE IF playerIndex # state.currentPlayerIndex THEN Reject(400, "Not your turn")
      ELSE IF ~HandHasId(state.playerHands[playerId], card.id)
      THEN Reject(400, "Card not in hand")
      ELSE LET r == PickRestriction(state, playerId, card)
           IN  IF ~r.ok THEN Reject(400, "Must draw cards (Market Penalties active)")
               ELSE IF ~canPlayCard(card, r.state.currentCard, r.state.selectedShape)
               THEN Reject(400, "Invalid move: Card does not match shape or number")
               ELSE LET moved   == RemoveAndDiscard(r.state, playerId, playerIndex,
                                                    card, selectedShape)
                        applied == applyCardEffect(moved, card, playerId)
                        queued  == MarketQueue(applied, playerId)
                        updated == WinnerCheck(queued, playerId, card)
                    IN  [ok |-> TRUE, status |-> 200, state |-> updated,
                         forceWrite |-> (updated.winner # Null)]

\* shuffleDeck on a recycled pile: the permutation Math.random yields, drawn
\* from the orders the model enumerates.
ReshuffleOrders == {"keep", "reverse"}

\* A shuffle that loses the first card of the pile it is given.
shuffleDeckDrop(order, cards) == IF cards = <<>> THEN cards ELSE Tail(cards)

shuffleDeck(order, cards) == IF order = "reverse" THEN Reverse(cards) ELSE cards

\* The draw loop of draw and auto-play: up to `remaining` cards from the
\* market, refilling it once from the discard pile below its top card.
RECURSIVE DrawLoop(_, _, _, _, _)
DrawLoop(marketPile, discardPile, drawnCards, remaining, order) ==
  IF remaining <= 0
  THEN [marketPile |-> marketPile, discardPile |-> discardPile, drawnCards |-> drawnCards]
  ELSE IF Len(marketPile) = 0
  THEN IF Len(discardPile) > 1
       THEN DrawLoop(shuffleDeck(order, SubSeq(discardPile, 1, Len(discardPile) - 1)),
                     <<discardPile[Len(discardPile)]>>, drawnCards, remaining, order)
       ELSE [marketPile |-> marketPile, discardPile |-> discardPile,
             drawnCards |-> drawnCards]
  ELSE DrawLoop(Tail(marketPile), discardPile, Append(drawnCards, Head(marketPile)),
                remaining - 1, order)

\* A draw count that takes two cards where no effect is active.
DrawCountPlainTwo(state) ==
  IF state.effectActive = "pick_two" THEN state.pickTwoChain * 2
  ELSE IF state.effectActive = "pick_three" THEN state.pickThreeChain * 3
  ELSE IF state.effectActive = "general_market" THEN 1
  ELSE 2

\* "Calculate how many to draw"
DrawCount(state) ==
  IF state.effectActive = "pick_two" THEN state.pickTwoChain * 2
  ELSE IF state.effectActive = "pick_three" THEN state.pickThreeChain * 3
  ELSE 1

\* Drawn cards appended to the hand with the player's cardCount left alone.
TakeCardsStaleCount(state, playerId, playerIndex, d) ==
  LET hand == state.playerHands[playerId] \o d.drawnCards
  IN  [state EXCEPT !.marketPile = d.marketPile,
                    !.discardPile = d.discardPile,
                    !.playerHands[playerId] = hand,
                    !.deckCount = Len(d.marketPile)]

\* The drawn cards appended to the hand, with the piles and counts updated.
TakeCards(state, playerId, playerIndex, d) ==
  LET hand == state.playerHands[playerId] \o d.drawnCards
  IN  [state EXCEPT !.marketPile = d.marketPile,
                    !.discardPile = d.discardPile,
                    !.playerHands[playerId] = hand,
                    !.players[playerIndex + 1].cardCount = Len(hand),
                    !.deckCount = Len(d.marketPile)]

\* A resolution that takes the initiator's index as it comes, found or not.
ResolveMarketUnguarded(state, playerId) ==
  LET due == SelectSeq(state.marketDue, LAMBDA id : id # playerId)
  IN  IF Len(due) = 0
      THEN [state EXCEPT !.marketDue = due,
                         !.currentPlayerIndex =
                            findIndex(state.players, state.generalMarketInitiator),
                         !.effectActive = Null,
                         !.generalMarketInitiator = Undefined]
      ELSE [state EXCEPT !.marketDue = due,
                         !.currentPlayerIndex = findIndex(state.players, due[1])]

\* General Market resolution after a victim's draw (draw and auto-play).
ResolveMarket(state, playerId) ==
  LET due == SelectSeq(state.marketDue, LAMBDA id : id # playerId)
  IN  IF Len(due) = 0
      THEN LET initiatorIndex == findIndex(state.players, state.generalMarketInitiator)
           IN  [state EXCEPT !.marketDue = due,
                             !.currentPlayerIndex =
                                IF initiatorIndex # -1 THEN initiatorIndex
                                ELSE state.currentPlayerIndex,
                             !.effectActive = Null,
                             !.generalMarketInitiator = Undefined]
      ELSE LET nextIndex == findIndex(state.players, due[1])
           IN  [state EXCEPT !.marketDue = due,
                             !.currentPlayerIndex =
                                IF nextIndex # -1 THEN nextIndex
                                ELSE state.currentPlayerIndex]

\* A draw that looks the player up but does not compare the index with the turn.
drawCardsOutOfTurn(state, playerId, order) ==
  LET playerIndex == findIndex(state.players, playerId)
  IN  IF playerIndex = -1 THEN Reject(400, "Not your turn")
      ELSE LET d == DrawLoop(state.marketPile, state.discardPile, <<>>,
                             DrawCount(state), order)
               taken == TakeCards(state, playerId, playerIndex, d)
               n == Len(state.players)
               updated ==
                 IF taken.effectActive = "general_market"
                 THEN ResolveMarket(taken, playerId)
                 ELSE [taken EXCEPT !.effectActive = Null,
                                    !.pickTwoChain = 0,
                                    !.pickThreeChain = 0,
                                    !.pickEffectInitiator = Undefined,
                                    !.currentPlayerIndex =
                                       (taken.currentPlayerIndex + taken.direction + n) % n]
           IN  [ok |-> TRUE, status |-> 200, state |-> updated,
                forceWrite |-> (updated.winner # Null), cards |-> d.drawnCards]

\* A draw that ends the effect and leaves the chain counters as they are.
drawCardsKeepChain(state, playerId, order) ==
  LET playerIndex == findIndex(state.players, playerId)
  IN  IF playerIndex # state.currentPlayerIndex THEN Reject(400, "Not your turn")
      ELSE LET d == DrawLoop(state.marketPile, state.discardPile, <<>>,
                             DrawCount(state), order)
               taken == TakeCards(state, playerId, playerIndex, d)
               n == Len(state.players)
               updated ==
                 IF taken.effectActive = "general_market"
                 THEN ResolveMarket(taken, playerId)
                 ELSE [taken EXCEPT !.effectActive = Null,
                                    !.pickEffectInitiator = Undefined,
                                    !.currentPlayerIndex =
                                       (taken.currentPlayerIndex + taken.direction + n) % n]
           IN  [ok |-> TRUE, status |-> 200, state |-> updated,
                forceWrite |-> (updated.winner # Null), cards |-> d.drawnCards]

\* POST */game/draw on a loaded aggregate; `order` is the reshuffle's outcome.
drawCards(state, playerId, order) ==
  LET playerIndex == findIndex(state.players, playerId)
  IN  IF playerIndex # state.currentPlayerIndex THEN Reject(400, "Not your turn")
      ELSE LET d == DrawLoop(state.marketPile, state.discardPile, <<>>,
                             DrawCount(state), order)
               taken == TakeCards(state, playerId, playerIndex, d)
               n == Len(state.players)
               updated ==
                 IF taken.effectActive = "general_market"
                 THEN ResolveMarket(taken, playerId)
                 ELSE [taken EXCEPT !.effectActive = Null,
                                    !.pickTwoChain = 0,
                                    !.pickThreeChain = 0,
                                    !.pickEffectInitiator = Undefined,
                                    !.currentPlayerIndex =
                                       (taken.currentPlayerIndex + taken.direction + n) % n]
           IN  [ok |-> TRUE, status |-> 200, state |-> updated,
                forceWrite |-> (updated.winner # Null), cards |-> d.drawnCards]

Skipped(reason) == [ok |-> TRUE, status |-> 200, skipped |-> TRUE, reason |-> reason]

\* A penalty branch that draws a single card whatever the chain.
autoDrawPenaltyOne(state, playerId, playerIndex, order) ==
  LET d == DrawLoop(state.marketPile, state.discardPile, <<>>, 1, order)
      taken == TakeCards(state, playerId, playerIndex, d)
      updated ==
        IF taken.effectActive = "general_market"
        THEN ResolveMarket(taken, playerId)
        ELSE [taken EXCEPT !.effectActive = Null,
                           !.pickTwoChain = 0,
                           !.pickThreeChain = 0,
                           !.currentPlayerIndex =
                              (taken.currentPlayerIndex + 1) % Len(taken.players)]
  IN  [ok |-> TRUE, status |-> 200, skipped |-> FALSE, action |-> "draw",
       state |-> updated, forceWrite |-> FALSE, cards |-> d.drawnCards,
       count |-> Len(d.drawnCards)]

\* A penalty branch that answers without drawing, leaving the effect, its
\* chain and the turn as they were.
autoDrawPenaltyIdle(state, playerId, playerIndex, order) ==
  [ok |-> TRUE, status |-> 200, skipped |-> FALSE, action |-> "draw",
   state |-> state, forceWrite |-> FALSE, cards |-> <<>>, count |-> 0]

\* Auto-play, penalty branch: "Check if there's a penalty active - must draw".
autoDrawPenalty(state, playerId, playerIndex, order) ==
  LET drawCount == IF state.effectActive = "pick_two" THEN state.pickTwoChain * 2
                   ELSE IF state.effectActive = "pick_three" THEN state.pickThreeChain * 3
                   ELSE 1
      d == DrawLoop(state.marketPile, state.discardPile, <<>>, drawCount, order)
      taken == TakeCards(state, playerId, playerIndex, d)
      updated ==
        IF taken.effectActive = "general_market"
        THEN ResolveMarket(taken, playerId)
        ELSE [taken EXCEPT !.effectActive = Null,
                           !.pickTwoChain = 0,
                           !.pickThreeChain = 0,
                           !.currentPlayerIndex =
                              (taken.currentPlayerIndex + 1) % Len(taken.players)]
  IN  [ok |-> TRUE, status |-> 200, skipped |-> FALSE, action |-> "draw",
       state |-> updated, forceWrite |-> FALSE, cards |-> d.drawnCards,
       count |-> Len(d.drawnCards)]

\* Auto-play, play branch: "Play the first valid card"; `shape` is the random
\* shape picked when that card is a Whot.
autoPlayFirst(state, playerId, playerIndex, cardToPlay, shape) ==
  LET hand == FilterOutId(state.playerHands[playerId], cardToPlay.id)
      moved == [state EXCEPT !.playerHands[playerId] = hand,
                             !.players[playerIndex + 1].cardCount = Len(hand),
                             !.currentCard = cardToPlay,
                             !.discardPile = Append(state.discardPile, cardToPlay),
                             !.selectedShape =
                                IF cardToPlay.number = WHOT THEN shape ELSE Null]
      applied == applyCardEffect(moved, cardToPlay, playerId)
      counted == [applied EXCEPT !.rulesLocked = TRUE,
                                 !.totalTurns = applied.totalTurns + 1]
      isWin == Len(counted.playerHands[playerId]) = 0
      updated == WinnerCheck(counted, playerId, cardToPlay)
  IN  [ok |-> TRUE, status |-> 200, skipped |-> FALSE, action |-> "play",
       state |-> updated, forceWrite |-> isWin, card |-> cardToPlay,
       selectedShape |-> IF cardToPlay.number = WHOT THEN shape ELSE Null]

\* Auto-play, last branch: "No playable cards - draw one".
autoDrawOne(state, playerId, playerIndex, order) ==
  LET d == DrawLoop(state.marketPile, state.discardPile, <<>>, 1, order)
      taken == TakeCards(state, playerId, playerIndex, d)
      updated == [taken EXCEPT !.currentPlayerIndex =
                    (taken.currentPlayerIndex + 1) % Len(taken.players)]
  IN  [ok |-> TRUE, status |-> 200, skipped |-> FALSE, action |-> "draw",
       state |-> updated, forceWrite |-> FALSE, cards |-> d.drawnCards, count |-> 1]

\* POST */game/auto-play on a loaded aggregate.
autoPlay(state, playerId, order, shape) ==
  LET playerIndex == findIndex(state.players, playerId)
  IN  IF state.winner # Null THEN Skipped("Game already ended")
      ELSE IF playerIndex # state.currentPlayerIndex THEN Skipped("Turn already passed")
      ELSE IF state.effectActive \in {"pick_two", "pick_three", "general_market"}
      THEN autoDrawPenalty(state, playerId, playerIndex, order)
      ELSE LET playableCards == getPlayableCards(state.playerHands[playerId],
                                   state.currentCard, state.selectedShape, state)
           IN  IF Len(playableCards) > 0
               THEN autoPlayFirst(state, playerId, playerIndex, playableCards[1], shape)
               ELSE autoDrawOne(state, playerId, playerIndex, order)

\* POST */game/ready on a loaded aggregate (an unknown player changes nothing).
playerReady(state, playerId) ==
  LET playerIndex == findIndex(state.players, playerId)
  IN  IF playerIndex # -1
      THEN [ok |-> TRUE, status |-> 200, saved |-> TRUE, forceWrite |-> FALSE,
            state |-> [state EXCEPT !.players[playerIndex + 1].isReady = TRUE]]
      ELSE [ok |-> TRUE, status |-> 200, saved |-> FALSE, forceWrite |-> FALSE,
            state |-> state]

\* POST */game/update-rules on a loaded aggregate.
updateRules(state, rules) ==
  IF state.rulesLocked THEN Reject(400, "Rules are locked after first card is played")
  ELSE [ok |-> TRUE, status |-> 200, forceWrite |-> FALSE,
        state |-> [state EXCEPT !.rules = MergeRules(state.rules, rules)]]

\* A start that deals a new aggregate and takes nothing from the stored one.
startGameFresh(existing, players, rules, shuffled) ==
  createInitialGameState(players, rules, shuffled)

\* POST */game/start: the new aggregate, given the stored one (<<>> if none).
startGame(existing, players, rules, shuffled) ==
  LET sessionWins == IF existing = <<>> THEN <<>> ELSE existing[1].sessionWins
  IN  [createInitialGameState(players, rules, shuffled) EXCEPT !.sessionWins = sessionWins]

----------------------------------------------------------------------------
\* The room store, the write-debounce cache and the clock

VARIABLES
  db,          \* the rooms row of the room: <<>> or <<aggregate>>
  cache,       \* gameStateCache entry of the room: <<>> or <<[state, pendingWrite]>>
  sinceWrite,  \* Date.now() - cache entry's lastWrite, in ms (0 while no entry)
  flight,      \* handlers and flush callbacks that have read and not yet saved
  out,         \* what the last accepted request returned and published
  left,        \* requests the clients may still send, per kind
  topic,       \* messages published to the room topic and not yet delivered
  clock,       \* Date.now() of the publishers, in ms
  client       \* a subscriber: lastGameStateTimestampRef, gameState, and (as
               \* history) the timestamps of the states it applied and the
               \* number of messages that left its state as it was

vars == <<db, cache, sinceWrite, flight, out, left, topic, clock, client>>

\* The subscriber's side, which the server's handlers do not touch.
subscriber == <<topic, clock, client>>

WRITE_WINDOW_MS == 5000
FLUSH_AFTER_MS == 10000

\* The step by which the model lets time pass between two requests.
TickMs == 5001

\* shouldWrite of saveGameState.
ShouldWrite(cached, state, forceWrite, timeSinceLastWrite) ==
  \/ forceWrite
  \/ cached = <<>>
  \/ timeSinceLastWrite > WRITE_WINDOW_MS
  \/ state.winner # Null
  \/ state.gameStarted # cached[1].state.gameStarted

\* saveGameState: the cache entry is replaced at once; the row is written only
\* when shouldWrite holds, and then lastWrite becomes now.
saveGameState(state, forceWrite) ==
  IF ShouldWrite(cache, state, forceWrite, sinceWrite)
  THEN /\ db' = <<state>>
       /\ cache' = <<[state |-> state, pendingWrite |-> FALSE]>>
       /\ sinceWrite' = 0
  ELSE /\ cache' = <<[state |-> state, pendingWrite |-> TRUE]>>
       /\ UNCHANGED <<db, sinceWrite>>

\* One pass of the setInterval flush over the room's cache entry.
FlushDue(cached, timeSinceLastWrite) ==
  cached # <<>> /\ cached[1].pendingWrite /\ timeSinceLastWrite > FLUSH_AFTER_MS

----------------------------------------------------------------------------
\* Outputs: the HTTP response and the messages published to the room topic

Idle == [cmd |-> "none", playerId |-> Null, status |-> 0, error |-> Null,
         state |-> <<>>, cards |-> <<>>, msgs |-> <<>>]

Message(type, playerId, cards, gameState) ==
  [type |-> type, playerId |-> playerId, cards |-> cards, gameState |-> gameState]

Response(cmd, playerId, status, error, state, cards, msgs) ==
  [cmd |-> cmd, playerId |-> playerId, status |-> status, error |-> error,
   state |-> state, cards |-> cards, msgs |-> msgs]

\* getGameState: the row, or "Game not found".
NotFound == Reject(404, "Game not found")

----------------------------------------------------------------------------
\* Bounds of the model: the clients, their requests and the shuffles

MaxPlayers == 3
MaxStarts == 1
MaxPlays == 2
MaxDraws == 1
PacedPlays == 6
PacedDraws == 2
MaxRuleUpdates == 1
MaxReadies == 1
MaxInFlight == 2
RacePlays == 2
RaceDraws == 1
RematchStarts == 2
RematchPlays == 6
MaxRefusals == 1
MaxOutages == 1
MaxClock == 3
MaxMessages == 4
DrainPlayers == 6
DrainPlays == 2
DrainDraws == 20
StuckPlays == 2
StuckDraws == 1
StuckTimeouts == 5
ForgedPlays == 2
ForgedDraws == 1
FlushPlays == 2
FlushDraws == 1
MaxFlushes == 1
WinRacePlays == 7
WinRaceDraws == 1
ChainPlays == 4
ChainDraws == 2

PlayerIds == <<"A", "B", "C", "D", "E", "F">>
Seats(n) == SubSeq(PlayerIds, 1, n)
Clients == {PlayerIds[i] : i \in 1..MaxPlayers}

\* The deck with the cards of `prefix` (ids) on top and the rest of createDeck
\* below, in order: one outcome of shuffleDeck(createDeck()).
DeckWithTop(prefix) ==
  LET top == {prefix[i] : i \in 1..Len(prefix)}
  IN  [i \in 1..Len(prefix) |-> CardById(prefix[i])]
        \o SelectSeq(createDeck, LAMBDA c : c.id \notin top)

\* Shuffle outcomes the model deals from (ids: 1-12 circle, 13-24 triangle,
\* 25-33 cross, 34-42 square, 43-49 star, 50-54 Whot).
WinDeal == <<1, 13, 43, 49, 19, 7,   14, 26, 28, 30, 31, 32,
             3, 36, 37, 38, 39, 40,   10>>
WhotStartDeal == <<4, 6, 8, 9, 10, 16,   18, 20, 21, 22, 23, 27,
                   50, 51, 3, 36, 37, 38,   52, 11>>
PickDeal == <<2, 12, 5, 38, 39, 40,   14, 24, 17, 4, 32, 41,
              3, 34, 36, 37, 42, 45,   6>>
SuspendDeal == <<27, 29, 30, 31, 32, 45,   51, 4, 37, 38, 39, 40,
                 7, 41, 46, 47, 48, 1,   19>>
MarketStartDeal == <<25, 28, 15, 16, 18, 20,   21, 22, 23, 46, 47, 48,
                     33, 8, 9, 10, 11, 44,   42>>
Shuffles ==
  {DeckWithTop(WinDeal), DeckWithTop(WhotStartDeal), DeckWithTop(PickDeal),
   DeckWithTop(SuspendDeal), DeckWithTop(MarketStartDeal)}

\* Rule objects a start request may carry: none, or every optional rule on.
AllRulesOn == [pickThree |-> TRUE, defendPick |-> TRUE, winWithHoldOn |-> TRUE]
StartRules == {<<>>, AllRulesOn}

\* Partial rule objects an update-rules request may carry.
RuleUpdates == {[defendPick |-> TRUE], [pickTwo |-> FALSE]}

\* Cards a play request of playerId may carry: the cards of that player's
\* stored hand, sent as they are in the hand (an id outside the hand is refused
\* with "Card not in hand"; the handler takes shape and number from the
\* request, and the model's clients do not alter them), and the shape the
\* request may declare with them.
RequestCards(stored, playerId) ==
  IF stored # <<>> /\ playerId \in DOMAIN stored[1].playerHands
  THEN {stored[1].playerHands[playerId][i] :
          i \in 1..Len(stored[1].playerHands[playerId])}
  ELSE {}
ShapeSet == {Shapes[i] : i \in 1..Len(Shapes)}
RequestShapes(card) == IF card.number = WHOT THEN ShapeSet \cup {Null} ELSE {Null}

\* Outcomes of the reshuffle a draw on the stored row may need: they differ
\* only when the market cannot serve the whole draw.
RefillOrders(stored) ==
  IF stored # <<>> /\ Len(stored[1].marketPile) < DrawCount(stored[1])
  THEN ReshuffleOrders ELSE {"keep"}

\* Outcomes of auto-play's random shape: they differ only when the player
\* holds a Whot.
AutoShapes(stored, playerId) ==
  IF \E card \in RequestCards(stored, playerId) : card.number = WHOT
  THEN ShapeSet ELSE {"circle"}

----------------------------------------------------------------------------
\* Requests, their results on a loaded row and their outputs

StartReq(n, rules, shuffled) ==
  [cmd |-> "start", players |-> Seats(n), rules |-> rules, shuffled |-> shuffled]
PlayReq(playerId, card, selectedShape) ==
  [cmd |-> "play", playerId |-> playerId, card |-> card, selectedShape |-> selectedShape]
DrawReq(playerId, order) == [cmd |-> "draw", playerId |-> playerId, order |-> order]
AutoReq(playerId, order, shape) ==
  [cmd |-> "auto-play", playerId |-> playerId, order |-> order, shape |-> shape]
ReadyReq(playerId) == [cmd |-> "ready", playerId |-> playerId]
RulesReq(playerId, rules) == [cmd |-> "update-rules", playerId |-> playerId, rules |-> rules]

\* What the handler of `req` computes from the row it loaded (`stored` is <<>>
\* when getGameState found none).
Result(req, stored) ==
  IF req.cmd = "start"
  THEN [ok |-> TRUE, status |-> 200, forceWrite |-> TRUE,
        state |-> startGame(stored, req.players, req.rules, req.shuffled)]
  ELSE IF stored = <<>> THEN NotFound
  ELSE CASE req.cmd = "play" ->
              playCard(stored[1], req.playerId, req.card, req.selectedShape)
         [] req.cmd = "draw" -> drawCards(stored[1], req.playerId, req.order)
         [] req.cmd = "auto-play" ->
              autoPlay(stored[1], req.playerId, req.order, req.shape)
         [] req.cmd = "ready" -> playerReady(stored[1], req.playerId)
         [] req.cmd = "update-rules" -> updateRules(stored[1], req.rules)

\* The request is accepted and saves an aggregate (a refused request, a skipped
\* auto-play and a ready of an unknown player save nothing).
Saves(req, r) ==
  /\ r.ok
  /\ req.cmd = "auto-play" => ~r.skipped
  /\ req.cmd = "ready" => r.saved

\* The kind of request an accepted request counts as.
Kind(req, r) ==
  CASE req.cmd = "start" -> "starts"
    [] req.cmd = "play" -> "plays"
    [] req.cmd = "draw" -> "draws"
    [] req.cmd = "auto-play" -> IF r.action = "play" THEN "plays" ELSE "draws"
    [] req.cmd = "ready" -> "readies"
    [] req.cmd = "update-rules" -> "rules"

\* The response of an accepted request and the messages it publishes.
Output(req, r) ==
  LET publicState == PublicState(r.state)
  IN  CASE req.cmd = "start" ->
             Response("start", Null, 200, Null, <<r.state>>, <<>>,
                      [i \in 1..Len(r.state.players) |->
                         Message("deal", r.state.players[i].id,
                                 r.state.playerHands[r.state.players[i].id],
                                 <<publicState>>)])
        [] req.cmd = "play" ->
             Response("play", req.playerId, 200, Null, <<publicState>>, <<req.card>>,
                      <<Message("card_played", req.playerId, <<req.card>>,
                                <<publicState>>)>>)
        [] req.cmd = "draw" ->
             Response("draw", req.playerId, 200, Null, <<>>, r.cards,
                      <<Message("draw", req.playerId, r.cards, <<>>),
                        Message("draw", "server", <<>>, <<publicState>>)>>)
        [] req.cmd = "auto-play" ->
             IF r.action = "play"
             THEN Response("auto-play", req.playerId, 200, Null, <<>>, <<r.card>>,
                           <<Message("card_played", req.playerId, <<r.card>>,
                                     <<publicState>>)>>)
             ELSE Response("auto-play", req.playerId, 200, Null, <<>>, <<>>,
                           <<Message("draw", req.playerId, r.cards, <<publicState>>)>>)
        [] req.cmd = "ready" ->
             Response("ready", req.playerId, 200, Null, <<>>, <<>>,
                      <<Message("player_ready", req.playerId, <<>>, <<publicState>>)>>)
        [] req.cmd = "update-rules" ->
             Response("update-rules", req.playerId, 200, Null, <<>>, <<>>,
                      <<Message("rules_update", req.playerId, <<>>, <<publicState>>)>>)

\* POST */game/get-state on the stored row: the returned gameState.
getState(state) == PublicState(state)

\* POST */game/get-hand on the stored row (an unknown player gets the empty hand).
getHand(state, playerId) ==
  IF playerId \in DOMAIN state.playerHands THEN state.playerHands[playerId] ELSE <<>>

----------------------------------------------------------------------------
\* The state machine.  A refused request changes nothing and publishes
\* nothing, so only accepted requests are steps.

InitWith(budget) ==
  /\ db = <<>>
  /\ cache = <<>>
  /\ sinceWrite = 0
  /\ flight = <<>>
  /\ out = Idle
  /\ left = budget
  /\ topic = {}
  /\ clock = 1
  /\ client = [lastGameStateTimestamp |-> 0, gameState |-> <<>>, applied |-> <<>>,
               dropped |-> 0]

\* The clients may still send a request of the kind `req` may count as.
Affordable(req) ==
  CASE req.cmd = "start" -> left.starts > 0
    [] req.cmd = "play" -> left.plays > 0
    [] req.cmd = "draw" -> left.draws > 0
    [] req.cmd = "auto-play" -> left.plays > 0 \/ left.draws > 0
    [] req.cmd = "ready" -> left.readies > 0
    [] req.cmd = "update-rules" -> left.rules > 0

\* The handler of `req` acting on the row `stored` it loaded: compute, save,
\* publish, respond.
Act(req, stored) ==
  LET r == Result(req, stored)
  IN  /\ Affordable(req)
      /\ Saves(req, r)
      /\ left[Kind(req, r)] > 0
      /\ saveGameState(r.state, r.forceWrite)
      /\ out' = Output(req, r)
      /\ left' = [left EXCEPT ![Kind(req, r)] = @ - 1]
      /\ UNCHANGED subscriber

\* A request handled from load to response with no other request in between.
Handle(req) == Act(req, db) /\ UNCHANGED flight

Start(n, rules, shuffled) == Handle(StartReq(n, rules, shuffled))
PlayCard(playerId, card, selectedShape) == Handle(PlayReq(playerId, card, selectedShape))
Draw(playerId, order) == Handle(DrawReq(playerId, order))
AutoPlay(playerId, order, shape) == Handle(AutoReq(playerId, order, shape))
Ready(playerId) == Handle(ReadyReq(playerId))
UpdateRules(playerId, rules) == Handle(RulesReq(playerId, rules))

\* Time passes with no request being handled.
Tick ==
  /\ cache # <<>>
  /\ sinceWrite <= FLUSH_AFTER_MS
  /\ sinceWrite' = sinceWrite + TickMs
  /\ UNCHANGED <<db, cache, flight, out, left>>
  /\ UNCHANGED subscriber

\* The setInterval callback finds the entry due and writes it.
Flush ==
  /\ FlushDue(cache, sinceWrite)
  /\ db' = <<cache[1].state>>
  /\ cache' = <<[cache[1] EXCEPT !.pendingWrite = FALSE]>>
  /\ sinceWrite' = 0
  /\ UNCHANGED <<flight, out, left>>
  /\ UNCHANGED subscriber

Init ==
  InitWith([starts |-> MaxStarts, plays |-> MaxPlays, draws |-> MaxDraws,
            rules |-> MaxRuleUpdates, readies |-> MaxReadies])

Next ==
  \/ /\ left.starts > 0
     /\ \E n \in 2..MaxPlayers, rules \in StartRules, shuffled \in Shuffles :
          Start(n, rules, shuffled)
  \/ \E p \in Clients : \E card \in RequestCards(db, p) :
        \E shape \in RequestShapes(card) : PlayCard(p, card, shape)
  \/ \E p \in Clients, order \in RefillOrders(db) : Draw(p, order)
  \/ \E p \in Clients, order \in RefillOrders(db) :
        \E shape \in AutoShapes(db, p) : AutoPlay(p, order, shape)
  \/ \E p \in Clients : Ready(p)
  \/ \E p \in Clients, rules \in RuleUpdates : UpdateRules(p, rules)
  \/ Tick
  \/ Flush

Spec == Init /\ [][Next]_vars

----------------------------------------------------------------------------
\* Paced clients: every request is sent after the write window of the last
\* save has passed, so that each save is written through to the row.

Settled == cache = <<>> \/ sinceWrite > WRITE_WINDOW_MS

InitPaced ==
  InitWith([starts |-> MaxStarts, plays |-> PacedPlays, draws |-> PacedDraws,
            rules |-> 0, readies |-> 0])

NextPaced ==
  \/ /\ Settled
     /\ left.starts > 0
     /\ \E n \in 2..MaxPlayers, rules \in StartRules, shuffled \in Shuffles :
          Start(n, rules, shuffled)
  \/ /\ Settled
     /\ \E p \in Clients : \E card \in RequestCards(db, p) :
          \E shape \in RequestShapes(card) : PlayCard(p, card, shape)
  \/ /\ Settled
     /\ \E p \in Clients, order \in RefillOrders(db) : Draw(p, order)
  \/ /\ Settled
     /\ \E p \in Clients, order \in RefillOrders(db) :
          \E shape \in AutoShapes(db, p) : AutoPlay(p, order, shape)
  \/ ~Settled /\ Tick

SpecPaced == InitPaced /\ [][NextPaced]_vars

\* The timeout of a turn (useAutoPlay).
TURN_TIMEOUT_MS == 30000

\* Date.now() - turnStartTime of the stored aggregate in a paced run: start,
\* play, draw and auto-play stamp turnStartTime with the time of their save,
\* and each of these saves is written through, so the turn's age is the time
\* since the last write.
TurnElapsed == sinceWrite

----------------------------------------------------------------------------
\* Overlapping requests: a handler loads the row, and other handlers may load
\* and save before it saves what it computed from the row it loaded.  Rows are
\* loaded only when the row holds the latest save, so that whatever a handler
\* misses, it misses because of the overlap.

Fresh == IF cache = <<>> THEN TRUE ELSE ~cache[1].pendingWrite

\* The requests in flight that count as `kind`.
InFlight(kind) ==
  Cardinality({i \in 1..Len(flight) :
                 Kind(flight[i].req, Result(flight[i].req, flight[i].stored)) = kind})

\* getGameState at the head of a handler: the request is in flight with the
\* row it loaded (only requests that row lets through go on to save).
Load(req) ==
  /\ Fresh
  /\ Len(flight) < MaxInFlight
  /\ Affordable(req)
  /\ LET r == Result(req, db)
     IN  Saves(req, r) /\ left[Kind(req, r)] > InFlight(Kind(req, r))
  /\ flight' = Append(flight, [req |-> req, stored |-> db])
  /\ UNCHANGED <<db, cache, sinceWrite, out, left>>
  /\ UNCHANGED subscriber

\* The rest of the handler of the i-th request in flight.
Commit(i) ==
  /\ i \in 1..Len(flight)
  /\ Act(flight[i].req, flight[i].stored)
  /\ flight' = [j \in 1..(Len(flight) - 1) |-> IF j < i THEN flight[j] ELSE flight[j + 1]]

InitRace ==
  InitWith([starts |-> MaxStarts, plays |-> RacePlays, draws |-> RaceDraws,
            rules |-> 0, readies |-> 0])

NextRace ==
  \/ /\ left.starts > 0
     /\ \E n \in 2..MaxPlayers, rules \in StartRules, shuffled \in Shuffles :
          Start(n, rules, shuffled)
  \/ \E p \in Clients : \E card \in RequestCards(db, p) :
        \E shape \in RequestShapes(card) : Load(PlayReq(p, card, shape))
  \/ \E p \in Clients, order \in RefillOrders(db) : Load(DrawReq(p, order))
  \/ \E p \in Clients, order \in RefillOrders(db) :
        \E shape \in AutoShapes(db, p) : Load(AutoReq(p, order, shape))
  \/ \E i \in 1..Len(flight) : Commit(i)
  \/ Tick
  \/ Flush

SpecRace == InitRace /\ [][NextRace]_vars

----------------------------------------------------------------------------
\* Rematches: the room is started again, at any point of a round and after a
\* round was won, with the players of one deal playing by hand or by timeout.

RematchShuffles == {DeckWithTop(WinDeal), DeckWithTop(SuspendDeal)}

InitRematch ==
  InitWith([starts |-> RematchStarts, plays |-> RematchPlays, draws |-> 0,
            rules |-> 0, readies |-> 0])

NextRematch ==
  \/ /\ left.starts > 0
     /\ \E n \in 2..MaxPlayers, rules \in StartRules, shuffled \in RematchShuffles :
          Start(n, rules, shuffled)
  \/ \E p \in Clients : \E card \in RequestCards(db, p) :
        \E shape \in RequestShapes(card) : PlayCard(p, card, shape)
  \/ \E p \in Clients, order \in RefillOrders(db) :
        \E shape \in AutoShapes(db, p) : AutoPlay(p, order, shape)
  \/ Tick
  \/ Flush

SpecRematch == InitRematch /\ [][NextRematch]_vars

----------------------------------------------------------------------------
\* Refused requests: a play, draw or update-rules request that one of the
\* handler's checks turns down is answered with the error and nothing else.

RefusalShuffles == {DeckWithTop(WinDeal), DeckWithTop(PickDeal)}

\* A card that is in the deck but need not be in the sender's hand.
ForeignCards == {CardById(1), CardById(6)}

\* The response of a request the handler refuses: c.json({ error }, status).
Refusal(req, r) ==
  Response(req.cmd, req.playerId, r.status, r.error, <<>>, <<>>, <<>>)

\* A refusal that saves the aggregate it loaded before answering.
RefuseAndSave(req) ==
  LET r == Result(req, db)
  IN  /\ left.refusals > 0
      /\ ~r.ok
      /\ IF db = <<>> THEN UNCHANGED <<db, cache, sinceWrite>>
         ELSE saveGameState(db[1], FALSE)
      /\ out' = Refusal(req, r)
      /\ left' = [left EXCEPT !.refusals = @ - 1]
      /\ UNCHANGED flight
      /\ UNCHANGED subscriber

\* The handler of `req` returns at one of its checks.
Refuse(req) ==
  LET r == Result(req, db)
  IN  /\ left.refusals > 0
      /\ ~r.ok
      /\ out' = Refusal(req, r)
      /\ left' = [left EXCEPT !.refusals = @ - 1]
      /\ UNCHANGED <<db, cache, sinceWrite, flight>>
      /\ UNCHANGED subscriber

InitRefusals ==
  InitWith([starts |-> MaxStarts, plays |-> MaxPlays, draws |-> MaxDraws,
            rules |-> MaxRuleUpdates, readies |-> 0, refusals |-> MaxRefusals])

NextRefusals ==
  \/ /\ left.starts > 0
     /\ \E n \in 2..MaxPlayers, rules \in StartRules, shuffled \in RefusalShuffles :
          Start(n, rules, shuffled)
  \/ \E p \in Clients : \E card \in RequestCards(db, p) :
        \E shape \in RequestShapes(card) : PlayCard(p, card, shape)
  \/ \E p \in Clients, order \in RefillOrders(db) : Draw(p, order)
  \/ \E p \in Clients, rules \in RuleUpdates : UpdateRules(p, rules)
  \/ \E p \in Clients \cup {"Z"} : \E card \in RequestCards(db, p) \cup ForeignCards :
        Refuse(PlayReq(p, card, Null))
  \/ \E p \in Clients \cup {"Z"} : Refuse(DrawReq(p, "keep"))
  \/ \E p \in Clients, rules \in RuleUpdates : Refuse(RulesReq(p, rules))
  \/ Tick
  \/ Flush

SpecRefusals == InitRefusals /\ [][NextRefusals]_vars

----------------------------------------------------------------------------
\* Broadcast outages: the broadcast_message RPC returns an error, so that
\* broadcast throws inside the handler that called it.

\* What the handler answers when its broadcast throws.  start, ready and
\* update-rules await the broadcast inside their try block, and play-card
\* rethrows the rejected promise: all end in the catch block with status 500.
\* draw awaits Promise.allSettled and goes on to its success response.
FailedOutput(req, r) ==
  IF req.cmd = "draw"
  THEN Response("draw", req.playerId, 200, Null, <<>>, r.cards, <<>>)
  ELSE Response(req.cmd, IF req.cmd = "start" THEN Null ELSE req.playerId,
                500, "Broadcast RPC error", <<>>, <<>>, <<>>)

\* The handler of `req` with the broadcast failing: the aggregate is saved
\* (before the broadcast, or alongside it), nothing is published.
Outage(req) ==
  LET r == Result(req, db)
  IN  /\ left.outages > 0
      /\ Affordable(req)
      /\ Saves(req, r)
      /\ left[Kind(req, r)] > 0
      /\ saveGameState(r.state, r.forceWrite)
      /\ out' = FailedOutput(req, r)
      /\ left' = [left EXCEPT ![Kind(req, r)] = @ - 1, !.outages = @ - 1]
      /\ UNCHANGED flight
      /\ UNCHANGED subscriber

InitOutage ==
  InitWith([starts |-> MaxStarts, plays |-> MaxPlays, draws |-> MaxDraws,
            rules |-> MaxRuleUpdates, readies |-> MaxReadies,
            outages |-> MaxOutages])

NextOutage ==
  \/ /\ left.starts > 0
     /\ \E n \in 2..MaxPlayers, rules \in StartRules, shuffled \in RefusalShuffles :
          Start(n, rules, shuffled) \/ Outage(StartReq(n, rules, shuffled))
  \/ \E p \in Clients : \E card \in RequestCards(db, p) :
        \E shape \in RequestShapes(card) : PlayCard(p, card, shape)
  \/ \E p \in Clients : \E card \in RequestCards(db, p) :
        \E shape \in RequestShapes(card) : Outage(PlayReq(p, card, shape))
  \/ \E p \in Clients, order \in RefillOrders(db) : Draw(p, order)
  \/ \E p \in Clients, order \in RefillOrders(db) : Outage(DrawReq(p, order))
  \/ \E p \in Clients : Ready(p)
  \/ \E p \in Clients : Outage(ReadyReq(p))
  \/ \E p \in Clients, rules \in RuleUpdates : UpdateRules(p, rules)
  \/ \E p \in Clients, rules \in RuleUpdates : Outage(RulesReq(p, rules))
  \/ Tick
  \/ Flush

SpecOutage == InitOutage /\ [][NextOutage]_vars

----------------------------------------------------------------------------
\* A long round at a full table: six players are dealt in, which leaves
\* seventeen cards in the market, and the paced players draw until the market
\* runs out and has to be refilled from the discard pile.

DrainClients == {PlayerIds[i] : i \in 1..DrainPlayers}

InitDrain ==
  InitWith([starts |-> MaxStarts, plays |-> DrainPlays, draws |-> DrainDraws,
            rules |-> 0, readies |-> 0])

NextDrain ==
  \/ /\ Settled
     /\ left.starts > 0
     /\ \E rules \in StartRules : Start(DrainPlayers, rules, DeckWithTop(WinDeal))
  \/ /\ Settled
     /\ \E p \in DrainClients : \E card \in RequestCards(db, p) :
          \E shape \in RequestShapes(card) : PlayCard(p, card, shape)
  \/ /\ Settled
     /\ \E p \in DrainClients, order \in RefillOrders(db) : Draw(p, order)
  \/ /\ Settled
     /\ \E p \in DrainClients, order \in RefillOrders(db) :
          \E shape \in AutoShapes(db, p) : AutoPlay(p, order, shape)
  \/ ~Settled /\ Tick

SpecDrain == InitDrain /\ [][NextDrain]_vars

----------------------------------------------------------------------------
\* Turns that are always taken: the clients' turn timers (useAutoPlay) send an
\* auto-play request for the player on turn whenever that player lets the
\* deadline pass, for as long as the round lasts, while the players themselves
\* send a few requests by hand.

\* A shuffle that lets the first player shed four cards on Hold On and
\* Suspension and leaves that player with two Pick Twos.
StuckDeal == <<1, 13, 43, 49, 44, 2,   14, 26, 28, 30, 31, 32,   3>>

\* The shuffles the timed rounds are dealt from.
StuckShuffles == {DeckWithTop(StuckDeal), DeckWithTop(MarketStartDeal)}

\* An auto-play request sent by a turn timer, handled from load to response.
\* The timers fire whenever an effect obliges the player on turn, and up to
\* StuckTimeouts times otherwise.
TimedOut(playerId, order, shape) ==
  LET req == AutoReq(playerId, order, shape)
      r == Result(req, db)
      obliged == db # <<>> /\ db[1].effectActive # Null
  IN  /\ Saves(req, r)
      /\ obliged \/ left.timeouts > 0
      /\ saveGameState(r.state, r.forceWrite)
      /\ out' = Output(req, r)
      /\ left' = [left EXCEPT !.timeouts = IF obliged THEN @ ELSE @ - 1]
      /\ UNCHANGED flight
      /\ UNCHANGED subscriber

\* The turn of a round that is still on is acted on, by hand or by timeout.
TurnActed ==
  /\ Settled
  /\ db # <<>>
  /\ db[1].winner = Null
  /\ \/ \E p \in Clients : \E card \in RequestCards(db, p) :
          \E shape \in RequestShapes(card) : PlayCard(p, card, shape)
     \/ \E p \in Clients, order \in RefillOrders(db) : Draw(p, order)
     \/ \E p \in Clients, order \in RefillOrders(db) :
          \E shape \in AutoShapes(db, p) : TimedOut(p, order, shape)

\* The write window of the last save runs out before the next request.
WindowPasses == ~Settled /\ Tick

InitStuck ==
  InitWith([starts |-> MaxStarts, plays |-> StuckPlays, draws |-> StuckDraws,
            rules |-> 0, readies |-> 0, timeouts |-> StuckTimeouts])

NextStuck ==
  \/ /\ Settled
     /\ left.starts > 0
     /\ \E n \in 2..MaxPlayers, shuffled \in StuckShuffles :
          Start(n, AllRulesOn, shuffled)
  \/ /\ Settled
     /\ \E p \in Clients : \E card \in RequestCards(db, p) :
          \E shape \in RequestShapes(card) : PlayCard(p, card, shape)
  \/ /\ Settled
     /\ \E p \in Clients, order \in RefillOrders(db) : Draw(p, order)
  \/ /\ Settled
     /\ \E p \in Clients, order \in RefillOrders(db) :
          \E shape \in AutoShapes(db, p) : TimedOut(p, order, shape)
  \/ ~Settled /\ Tick

SpecStuck ==
  /\ InitStuck
  /\ [][NextStuck]_vars
  /\ WF_vars(WindowPasses)
  /\ WF_vars(TurnActed)

----------------------------------------------------------------------------
\* Requests written by hand: a play request names a card the sender holds by
\* its id and states any shape and rank for it in the request body.

\* What a play request may state for the held card `held`: the card as held,
\* a Whot, or the shape and rank of the card on the table.
StatedCards(stored, held) ==
  {held, [held EXCEPT !.shape = "circle", !.number = WHOT]}
    \cup (IF stored # <<>>
          THEN {[held EXCEPT !.shape = stored[1].currentCard.shape,
                             !.number = stored[1].currentCard.number]}
          ELSE {})

InitForged ==
  InitWith([starts |-> MaxStarts, plays |-> ForgedPlays, draws |-> ForgedDraws,
            rules |-> 0, readies |-> 0])

NextForged ==
  \/ /\ Settled
     /\ left.starts > 0
     /\ \E n \in 2..MaxPlayers, rules \in StartRules, shuffled \in RefusalShuffles :
          Start(n, rules, shuffled)
  \/ /\ Settled
     /\ \E p \in Clients : \E held \in RequestCards(db, p) :
          \E card \in StatedCards(db, held) :
             \E shape \in RequestShapes(card) : PlayCard(p, card, shape)
  \/ /\ Settled
     /\ \E p \in Clients, order \in RefillOrders(db) : Draw(p, order)
  \/ ~Settled /\ Tick

SpecForged == InitForged /\ [][NextForged]_vars

----------------------------------------------------------------------------
\* The background flush step by step: the setInterval callback finds the entry
\* due and keeps it in `cached`, awaits the upsert of cached.state, and then
\* sets the cache entry from `cached`; handlers run while it awaits.

FlushReq(written) == [cmd |-> "flush", written |-> written]

\* The callback finds the entry due and goes on to write it.
FlushBegin ==
  /\ FlushDue(cache, sinceWrite)
  /\ Len(flight) < MaxFlushes
  /\ flight' = Append(flight, [req |-> FlushReq(FALSE), stored |-> cache])
  /\ UNCHANGED <<db, cache, sinceWrite, out, left>>
  /\ UNCHANGED subscriber

\* The upsert of the state the callback holds reaches the rooms table.
FlushWrite ==
  /\ flight # <<>>
  /\ ~flight[1].req.written
  /\ db' = <<flight[1].stored[1].state>>
  /\ flight' = [flight EXCEPT ![1].req = FlushReq(TRUE)]
  /\ UNCHANGED <<cache, sinceWrite, out, left>>
  /\ UNCHANGED subscriber

\* The await returns: gameStateCache.set(roomCode, {...cached, lastWrite: now,
\* pendingWrite: false}).
FlushEnd ==
  /\ flight # <<>>
  /\ flight[1].req.written
  /\ cache' = <<[flight[1].stored[1] EXCEPT !.pendingWrite = FALSE]>>
  /\ sinceWrite' = 0
  /\ flight' = Tail(flight)
  /\ UNCHANGED <<db, out, left>>
  /\ UNCHANGED subscriber

InitFlush ==
  InitWith([starts |-> MaxStarts, plays |-> FlushPlays, draws |-> FlushDraws,
            rules |-> 0, readies |-> 0])

NextFlush ==
  \/ /\ left.starts > 0
     /\ \E n \in 2..MaxPlayers, rules \in StartRules, shuffled \in RefusalShuffles :
          Start(n, rules, shuffled)
  \/ \E p \in Clients : \E card \in RequestCards(db, p) :
        \E shape \in RequestShapes(card) : PlayCard(p, card, shape)
  \/ \E p \in Clients, order \in RefillOrders(db) : Draw(p, order)
  \/ Tick
  \/ FlushBegin
  \/ FlushWrite
  \/ FlushEnd

SpecFlush == InitFlush /\ [][NextFlush]_vars

----------------------------------------------------------------------------
\* The last card of a round: the players play in turn until one of them is
\* down to one card, and on that player's turn the play request and the turn
\* timer's auto-play request overlap.

\* A shuffle after which the first player sheds five cards and holds a Pick
\* Two, and the second player holds a Pick Two to answer with.
WinRaceDeal == <<1, 13, 43, 49, 45, 2,   44, 26, 28, 30, 31, 32,   3>>

\* The player on turn of the stored round holds a single card.
LastCardTurn ==
  /\ db # <<>>
  /\ db[1].winner = Null
  /\ Len(db[1].playerHands[db[1].players[db[1].currentPlayerIndex + 1].id]) = 1

InitWinRace ==
  InitWith([starts |-> MaxStarts, plays |-> WinRacePlays, draws |-> WinRaceDraws,
            rules |-> 0, readies |-> 0])

NextWinRace ==
  \/ /\ left.starts > 0
     /\ Start(2, AllRulesOn, DeckWithTop(WinRaceDeal))
  \/ /\ Settled
     /\ flight = <<>>
     /\ ~LastCardTurn
     /\ \E p \in Clients : \E card \in RequestCards(db, p) :
          \E shape \in RequestShapes(card) : PlayCard(p, card, shape)
  \/ /\ LastCardTurn
     /\ \E p \in Clients : \E card \in RequestCards(db, p) :
          \E shape \in RequestShapes(card) : Load(PlayReq(p, card, shape))
  \/ /\ LastCardTurn
     /\ \E p \in Clients, order \in RefillOrders(db) :
          \E shape \in AutoShapes(db, p) : Load(AutoReq(p, order, shape))
  \/ \E i \in 1..Len(flight) : Commit(i)
  \/ Tick
  \/ Flush

SpecWinRace == InitWinRace /\ [][NextWinRace]_vars

----------------------------------------------------------------------------
\* Rounds that open on a pick card: the start card is a Pick Two (two
\* players) or a Pick Three (three players), and the hands hold cards of both
\* ranks to answer with.

ChainStartDeal == <<14, 17, 4, 6, 8, 9,   26, 28, 1, 3, 10, 11,
                    2, 44, 47, 15, 16, 18,   5>>

ChainShuffles == {DeckWithTop(ChainStartDeal), DeckWithTop(PickDeal)}

InitChain ==
  InitWith([starts |-> MaxStarts, plays |-> ChainPlays, draws |-> ChainDraws,
            rules |-> 0, readies |-> 0])

NextChain ==
  \/ /\ Settled
     /\ left.starts > 0
     /\ \E n \in 2..MaxPlayers, rules \in StartRules, shuffled \in ChainShuffles :
          Start(n, rules, shuffled)
  \/ /\ Settled
     /\ \E p \in Clients : \E card \in RequestCards(db, p) :
          \E shape \in RequestShapes(card) : PlayCard(p, card, shape)
  \/ /\ Settled
     /\ \E p \in Clients, order \in RefillOrders(db) : Draw(p, order)
  \/ /\ Settled
     /\ \E p \in Clients, order \in RefillOrders(db) :
          \E shape \in AutoShapes(db, p) : AutoPlay(p, order, shape)
  \/ ~Settled /\ Tick

SpecChain == InitChain /\ [][NextChain]_vars

----------------------------------------------------------------------------
\* A subscriber of the room topic (useGameConnection): publishers stamp each
\* message with their Date.now(), the channel delivers in any order, and the
\* subscriber applies the game state a message carries.

\* The number of messages published so far; the k-th state-bearing message
\* carries the state <<k>>.
Published == Cardinality(topic) + Len(client.applied) + client.dropped

\* broadcast (server) and sendBroadcast (client): the payload with
\* timestamp: Date.now() added.
broadcast(payload) == [payload EXCEPT !.timestamp = clock]

\* The 'broadcast' handler of the channel.
onBroadcast(c, payload) ==
  IF payload.gameState # <<>>
  THEN LET incomingTs == payload.timestamp
           applied == [c EXCEPT !.gameState = payload.gameState,
                                !.applied = Append(c.applied, incomingTs)]
       IN  IF incomingTs \in Nat /\ incomingTs > 0
           THEN IF incomingTs < c.lastGameStateTimestamp
                THEN [c EXCEPT !.dropped = c.dropped + 1]
                ELSE [applied EXCEPT !.lastGameStateTimestamp = incomingTs]
           ELSE applied
  ELSE [c EXCEPT !.dropped = c.dropped + 1]

\* A handler publishes a message, with or without a game state.
Publish(gameState) ==
  /\ Published < MaxMessages
  /\ topic' = topic \cup {broadcast([id |-> Published + 1, gameState |-> gameState,
                                     timestamp |-> Undefined])}
  /\ UNCHANGED <<db, cache, sinceWrite, flight, out, left, clock, client>>

\* A millisecond passes.
ClockTick ==
  /\ clock < MaxClock
  /\ clock' = clock + 1
  /\ UNCHANGED <<db, cache, sinceWrite, flight, out, left, topic, client>>

\* The channel delivers one of the messages to the subscriber.
Deliver(payload) ==
  /\ payload \in topic
  /\ topic' = topic \ {payload}
  /\ client' = onBroadcast(client, payload)
  /\ UNCHANGED <<db, cache, sinceWrite, flight, out, left, clock>>

InitSubscriber ==
  InitWith([starts |-> 0, plays |-> 0, draws |-> 0, rules |-> 0, readies |-> 0])

NextSubscriber ==
  \/ \E gameState \in {<<>>, <<Published + 1>>} : Publish(gameState)
  \/ ClockTick
  \/ \E payload \in topic : Deliver(payload)

SpecSubscriber == InitSubscriber /\ [][NextSubscriber]_vars

----------------------------------------------------------------------------
\* Properties

\* The cards an aggregate holds: both piles and every hand.
TotalCards(state) ==
  Len(state.marketPile) + Len(state.discardPile)
    + SeqSum([i \in 1..Len(state.players) |->
                Len(state.playerHands[state.players[i].id])])

\* C1: card conservation - in the stored aggregate, from start on and after
\* every accepted play, draw and auto-play, the market pile, the discard pile
\* and the hands together hold the 54 cards of the deck.
C1Conservation == db # <<>> => TotalCards(db[1]) = Len(createDeck)

\* The rank that defends the active chain.
ChainRank(effect) == IF effect = "pick_two" THEN PICK_TWO ELSE PICK_THREE

\* C2: pick-chain legality - while the loaded aggregate has pick_two or
\* pick_three active, a play is accepted only if rules.defendPick is on and the
\* card's rank is the chain's rank; otherwise only a draw succeeds.
C2PickChainLegality ==
  [][(/\ db # <<>>
      /\ db[1].effectActive \in {"pick_two", "pick_three"}
      /\ left'.plays = left.plays - 1)
     => (/\ db[1].rules.defendPick
         /\ out'.cards[1].number = ChainRank(db[1].effectActive))]_vars

\* C3: no lost action under overlap - the card of an accepted play is still
\* on the discard pile of the latest saved aggregate after the next accepted
\* request, whatever was handled between that request's load and its save.
C3NoLostAction ==
  [][(/\ cache # <<>>
      /\ out.cmd \in {"play", "auto-play"}
      /\ Len(out.cards) = 1
      /\ left' # left
      /\ left'.starts = left.starts)
     => \E i \in 1..Len(cache'[1].state.discardPile) :
           cache'[1].state.discardPile[i] = out.cards[1]]_vars

\* C4: write-back visibility - the row the next request loads is the aggregate
\* the last accepted request produced, whatever the time since.
C4WriteBackVisible == cache # <<>> => db = <<cache[1].state>>

\* A game state that shows no hand, no market card and at most the top of the
\* discard pile.
Redacted(view) ==
  /\ DOMAIN view.playerHands = {}
  /\ Len(view.marketPile) = 0
  /\ Len(view.discardPile) <= 1

\* C5: redaction - the game state of every response, of every published
\* message and of get-state shows no hand, no market card and of the discard
\* pile nothing beyond its top card.
C5Redaction ==
  /\ \A i \in 1..Len(out.state) : Redacted(out.state[i])
  /\ \A i \in 1..Len(out.msgs) :
       \A j \in 1..Len(out.msgs[i].gameState) : Redacted(out.msgs[i].gameState[j])
  /\ db # <<>> => Redacted(getState(db[1]))

\* The fields a finished round keeps.
Frozen(s, t) ==
  /\ t.playerHands = s.playerHands
  /\ t.marketPile = s.marketPile
  /\ t.discardPile = s.discardPile
  /\ t.currentPlayerIndex = s.currentPlayerIndex
  /\ t.effectActive = s.effectActive
  /\ t.pickTwoChain = s.pickTwoChain
  /\ t.pickThreeChain = s.pickThreeChain
  /\ t.marketDue = s.marketDue
  /\ t.generalMarketInitiator = s.generalMarketInitiator

\* C6: round freeze - once the stored aggregate has a winner, no play, draw or
\* auto-play changes a hand, a pile, the turn or the effect fields until the
\* next start.
C6RoundFreeze ==
  [][(db # <<>> /\ db[1].winner # Null /\ left'.starts = left.starts)
     => (db' # <<>> /\ Frozen(db[1], db'[1]))]_vars

\* C7: General Market draining - while a market a player opened is active, the
\* only request accepted is a draw of at most one card by the head of
\* marketDue, which leaves the queue; after the last victim's draw the effect
\* is none, the turn is the initiator's and the initiator's hand is as it was.
C7MarketDraining ==
  [][(/\ db # <<>>
      /\ db[1].effectActive = "general_market"
      /\ db[1].generalMarketInitiator \notin {"dealer", Undefined}
      /\ db[1].marketDue # <<>>
      /\ left' # left
      /\ left'.starts = left.starts)
     => LET s == db[1]
            t == db'[1]
            victim == Head(s.marketDue)
            initiator == s.generalMarketInitiator
        IN  /\ left'.draws = left.draws - 1
            /\ out'.playerId = victim
            /\ Len(t.playerHands[victim]) <= Len(s.playerHands[victim]) + 1
            /\ t.marketDue = Tail(s.marketDue)
            /\ t.playerHands[initiator] = s.playerHands[initiator]
            /\ IF t.marketDue = <<>>
               THEN /\ t.effectActive = Null
                    /\ t.players[t.currentPlayerIndex + 1].id = initiator
               ELSE /\ t.effectActive = "general_market"
                    /\ t.players[t.currentPlayerIndex + 1].id = Head(t.marketDue)]_vars

\* The cards a draw can obtain: the market and the discard pile below its top.
Obtainable(state) ==
  Len(state.marketPile)
    + (IF Len(state.discardPile) > 1 THEN Len(state.discardPile) - 1 ELSE 0)

Min(a, b) == IF a < b THEN a ELSE b

\* C8: chain multiplier - with pickTwo and defendPick on, a Pick-Two played on
\* an active pick_two chain raises pickTwoChain by one (a first Pick-Two makes
\* it 1), and the draw that ends a chain of k moves min(2k, obtainable cards)
\* into the drawing player's hand.
C8ChainMultiplier ==
  [][/\ (/\ db # <<>>
         /\ db[1].rules.pickTwo /\ db[1].rules.defendPick
         /\ left'.plays = left.plays - 1
         /\ out'.cards[1].number = PICK_TWO)
        => db'[1].pickTwoChain =
             (IF db[1].effectActive = "pick_two" THEN db[1].pickTwoChain ELSE 0) + 1
     /\ (/\ db # <<>>
         /\ db[1].rules.pickTwo /\ db[1].rules.defendPick
         /\ db[1].effectActive = "pick_two"
         /\ left'.draws = left.draws - 1)
        => Len(db'[1].playerHands[out'.playerId])
             = Len(db[1].playerHands[out'.playerId])
                 + Min(2 * db[1].pickTwoChain, Obtainable(db[1]))]_vars

\* C9: two players A and B, pickTwo on, defendPick off - A's accepted rank-2
\* play produces pick_two with chain 1 and B to move; B's draw, on the row it
\* then loads, is accepted, gives B two cards, clears the effect and the chain
\* and passes the turn to A.
C9PickTwoScenario ==
  (/\ cache # <<>>
   /\ out.cmd = "play" /\ out.playerId = "A"
   /\ out.cards[1].number = PICK_TWO
   /\ Len(cache[1].state.players) = 2
   /\ cache[1].state.rules.pickTwo /\ ~cache[1].state.rules.defendPick)
  => LET t == cache[1].state
         r == drawCards(db[1], "B", "keep")
     IN  /\ t.effectActive = "pick_two"
         /\ t.pickTwoChain = 1
         /\ t.currentPlayerIndex = 1
         /\ r.ok
         /\ Len(r.state.playerHands["B"]) = Len(t.playerHands["B"]) + 2
         /\ r.state.effectActive = Null
         /\ r.state.pickTwoChain = 0
         /\ r.state.currentPlayerIndex = 0

\* sessionWins[playerId] || 0
WinsOf(state, playerId) ==
  IF playerId \in DOMAIN state.sessionWins THEN state.sessionWins[playerId] ELSE 0

CurrentPlayer(state) == state.players[state.currentPlayerIndex + 1].id

\* C11: wildcard follow-up - while the round has no winner, a rank-20 card of
\* the current player is accepted whatever the current card is; and when the
\* latest accepted play was a rank-20 card with declared shape s (it is the
\* current card of the latest saved aggregate), the next accepted play is a
\* card of shape s or a rank-20 card, whatever draws came in between.
C11WildcardFollowUp ==
  /\ [](db # <<>> /\ db[1].winner = Null
          => \A card \in RequestCards(db, CurrentPlayer(db[1])) :
                card.number = WHOT
                  => \A shape \in ShapeSet :
                        playCard(db[1], CurrentPlayer(db[1]), card, shape).ok)
  /\ [][(/\ cache # <<>>
         /\ cache[1].state.currentCard.number = WHOT
         /\ cache[1].state.selectedShape # Null
         /\ left'.plays = left.plays - 1)
        => (\/ out'.cards[1].number = WHOT
            \/ out'.cards[1].shape = cache[1].state.selectedShape)]_vars

\* C12: wildcard declaration - whenever the stored aggregate's current card
\* has rank 20 (a play put it there: the deal never starts on a Whot), its
\* selectedShape is one of the five shapes; a rank-20 play with no shape does
\* not succeed.
C12WildcardDeclared ==
  (db # <<>> /\ db[1].currentCard.number = WHOT) => db[1].selectedShape \in ShapeSet

\* An id that is in no room.
Stranger == "Z"

\* The play and draw requests of `playerId` on the stored aggregate are all
\* refused, a play with one of `playErrors`, a draw with "Not your turn".
Refused(state, playerId, playErrors) ==
  /\ \A card \in RequestCards(<<state>>, playerId) \cup {CardById(1)} :
       \A shape \in RequestShapes(card) :
          LET r == playCard(state, playerId, card, shape)
          IN  ~r.ok /\ r.error \in playErrors
  /\ \A order \in ReshuffleOrders :
       LET d == drawCards(state, playerId, order)
       IN  ~d.ok /\ d.error = "Not your turn"

\* C13 as stated: turn error - a play or draw of any player other than the
\* current one (an id outside the room included) is refused with a
\* not-your-turn or not-found error and saves nothing.
C13TurnErrorAsStated ==
  db # <<>> =>
    \A p \in (Clients \cup {Stranger}) \ {CurrentPlayer(db[1])} :
       Refused(db[1], p, {"Not your turn", "Player not found"})

\* C13, amended: a play or draw of any player other than the current one (an
\* id outside the room included) is refused and saves nothing; the error is
\* not-your-turn or not-found, except that a play on a round that has a winner
\* is refused with "Game is over" before the turn is looked at.
C13TurnError ==
  db # <<>> =>
    \A p \in (Clients \cup {Stranger}) \ {CurrentPlayer(db[1])} :
       Refused(db[1], p,
               IF db[1].winner # Null THEN {"Game is over"}
               ELSE {"Not your turn", "Player not found"})

\* A round in progress, past its first turn, in which a seated player other
\* than the current one holds cards and is refused.
C13OutOfTurnRefused ==
  /\ db # <<>>
  /\ db[1].winner = Null
  /\ db[1].totalTurns > 0
  /\ \E p \in DOMAIN db[1].playerHands :
        /\ p # CurrentPlayer(db[1])
        /\ Len(db[1].playerHands[p]) > 0
        /\ Refused(db[1], p, {"Not your turn"})

\* C14: turn index range - in the stored aggregate and in the latest saved
\* one, from start on (start cards of rank 8 and 14 included) and after every
\* play, draw and auto-play, 0 <= currentPlayerIndex < players.length.
C14TurnIndexInRange ==
  /\ db # <<>> => db[1].currentPlayerIndex \in 0..(Len(db[1].players) - 1)
  /\ cache # <<>> =>
       cache[1].state.currentPlayerIndex \in 0..(Len(cache[1].state.players) - 1)

\* The market a rank-14 start card opened has been drained: nobody has played,
\* every player has drawn, and the effect is over.
C14DealerMarketDrained ==
  /\ db # <<>>
  /\ db[1].currentCard.number = GENERAL_MARKET
  /\ db[1].totalTurns = 0
  /\ db[1].effectActive = Null
  /\ \A i \in 1..Len(db[1].players) : db[1].players[i].cardCount > CardsPerPlayer

\* The latest aggregate a handler saved is locked.
Locked == IF cache = <<>> THEN FALSE ELSE cache[1].state.rulesLocked

\* C15: rules lock - while no play of the match has succeeded, update-rules on
\* the stored row succeeds and merges the given fields into rules; once a play
\* (manual or automatic) has succeeded, no update-rules request is accepted
\* and the rules stay as they are until the next start.
C15RulesLock ==
  /\ [](db # <<>> /\ ~db[1].rulesLocked
          => \A rules \in RuleUpdates :
                LET r == updateRules(db[1], rules)
                IN  /\ r.ok
                    /\ r.state.rules = MergeRules(db[1].rules, rules)
                    /\ \A f \in DOMAIN rules : r.state.rules[f] = rules[f])
  /\ [][(Locked /\ left'.starts = left.starts)
          => /\ left'.rules = left.rules
             /\ cache'[1].state.rules = cache[1].state.rules]_vars

\* The tally of the latest saved aggregate (empty when there is none).
PriorWins == IF cache = <<>> THEN <<>> ELSE cache[1].state.sessionWins

\* C16: rematch continuity - a start produces an aggregate whose sessionWins
\* is the tally of the aggregate it replaces (empty only when there was none
\* or that tally was empty); every other field is that of a fresh deal, with
\* no winner, no turn played and rulesLocked false.
C16RematchContinuity ==
  [][left'.starts = left.starts - 1
       => LET new == cache'[1].state
          IN  /\ new.sessionWins = PriorWins
              /\ db' = <<new>>
              /\ new.rulesLocked = FALSE
              /\ new.winner = Null
              /\ new.totalTurns = 0
              /\ TotalCards(new) = Len(createDeck)
              /\ Len(new.discardPile) = 1
              /\ \A i \in 1..Len(new.players) :
                    /\ Len(new.playerHands[new.players[i].id]) = CardsPerPlayer
                    /\ new.players[i].cardCount = CardsPerPlayer
                    /\ ~new.players[i].isReady
              /\ \E n \in 2..MaxPlayers, rules \in StartRules, shuffled \in RematchShuffles :
                    new = [createInitialGameState(Seats(n), rules, shuffled)
                             EXCEPT !.sessionWins = PriorWins]]_vars

\* A rematch has been dealt on a room whose last round was won.
C16RematchAfterWin ==
  /\ db # <<>>
  /\ left.starts = 0
  /\ db[1].totalTurns = 0
  /\ db[1].winner = Null
  /\ ~db[1].rulesLocked
  /\ \E p \in DOMAIN db[1].sessionWins : db[1].sessionWins[p] = 1

\* C17: auto-play never fails - whatever the room holds (no row at all, a
\* finished round, a turn that is another player's), an auto-play request of
\* any caller gets a success response, acted or skipped, never an error.
C17AutoPlayNeverFails ==
  \A p \in Clients \cup {Stranger} :
     \A order \in ReshuffleOrders, shape \in ShapeSet :
        LET r == Result(AutoReq(p, order, shape), db)
        IN  r.ok /\ r.status = 200

\* C18: redundant auto-play - once an auto-play request for player p has
\* applied its forced action, a further auto-play request for p (sent for the
\* same expired turn) is skipped and changes nothing, whatever the forced
\* action was.
C18RedundantAutoPlay ==
  (db # <<>> /\ out.cmd = "auto-play")
    => \A order \in ReshuffleOrders, shape \in ShapeSet :
          autoPlay(db[1], out.playerId, order, shape).skipped

\* C19: server-side deadline - an auto-play request applies a forced action
\* only when at least TURN_TIMEOUT_MS have passed since the turnStartTime of
\* the current turn; before that it changes nothing.
C19ServerSideDeadline ==
  [][(left' # left /\ out'.cmd = "auto-play") => TurnElapsed >= TURN_TIMEOUT_MS]_vars

\* The first card of the hand, in hand order, that is legal on the table.
FirstLegal(state, playerId) ==
  LET hand == state.playerHands[playerId]
      legal == {i \in 1..Len(hand) :
                  canPlayCard(hand[i], state.currentCard, state.selectedShape)}
  IN  IF legal = {} THEN <<>>
      ELSE <<hand[CHOOSE i \in legal : \A j \in legal : i <= j]>>

\* C20: auto-play action choice - for the current player of a round in
\* progress, auto-play makes the forced draw when pick_two, pick_three or
\* general_market is active; otherwise it plays the first legal card of the
\* hand; with no legal card it draws at most one card and passes the turn.
\* The aggregate it saves is the one the manual draw, or the manual play of
\* that card (with the shape auto-play picked for a Whot), would save.
C20AutoPlayChoice ==
  (db # <<>> /\ db[1].winner = Null)
    => LET state == db[1]
           p == CurrentPlayer(state)
           first == FirstLegal(state, p)
       IN  \A order \in ReshuffleOrders, shape \in ShapeSet :
              LET a == autoPlay(state, p, order, shape)
              IN  /\ ~a.skipped
                  /\ IF state.effectActive \in {"pick_two", "pick_three", "general_market"}
                        \/ first = <<>>
                     THEN /\ a.action = "draw"
                          /\ state.effectActive \notin {"pick_two", "pick_three"}
                               => Len(a.cards) <= 1
                          /\ a.state = drawCards(state, p, order).state
                     ELSE /\ a.action = "play"
                          /\ a.card = first[1]
                          /\ a.state =
                               playCard(state, p, first[1],
                                        IF first[1].number = WHOT THEN shape ELSE Null).state

\* An auto-play has just made the forced draw of a pick chain for the player
\* whose turn had run out, and the turn has passed on.
C20AutoDrewPenalty ==
  /\ db # <<>>
  /\ out.cmd = "auto-play"
  /\ out.msgs[1].type = "draw"
  /\ Len(out.msgs[1].cards) \in {2, 3}
  /\ db[1].effectActive = Null
  /\ CurrentPlayer(db[1]) # out.playerId

\* C21: out-of-order tolerance - the subscriber applies a state-bearing
\* message only if its timestamp is strictly greater than that of the last
\* state it applied, so the timestamps of the applied states strictly increase.
C21StrictlyNewer ==
  \A i, j \in 1..Len(client.applied) :
     i < j => client.applied[i] < client.applied[j]

\* C22: rejections mutate nothing - a play, draw or update-rules request that
\* is refused (unknown room or player, not the sender's turn, card not in
\* hand, illegal card, rules locked) leaves the stored aggregate and the write
\* cache exactly as they were and publishes no message.
C22RejectionsMutateNothing ==
  [][left'.refusals < left.refusals
       => /\ out'.status \in {400, 404}
          /\ out'.error # Null
          /\ db' = db
          /\ cache' = cache
          /\ sinceWrite' = sinceWrite
          /\ out'.msgs = <<>>]_vars

\* A play of the obligated player was refused while a pick chain is active,
\* and the chain is still in the stored aggregate and in the cache.
C22RefusedDuringChain ==
  /\ left.refusals < MaxRefusals
  /\ out.cmd = "play"
  /\ out.status = 400
  /\ db # <<>>
  /\ out.playerId = CurrentPlayer(db[1])
  /\ db[1].effectActive \in {"pick_two", "pick_three"}
  /\ cache[1].state.effectActive \in {"pick_two", "pick_three"}

\* C23: broadcast failures propagate - when the broadcast of a mutating
\* command (start, play, draw, ready, update-rules) fails, the request does
\* not return success.
C23BroadcastFailuresPropagate ==
  [][left'.outages < left.outages => out'.status # 200]_vars

\* With no effect active both chain counters of the aggregate are 0.
ChainsCleared(state) ==
  state.effectActive = Null => state.pickTwoChain = 0 /\ state.pickThreeChain = 0

\* C24: effect/chain consistency - in the stored aggregate and in the latest
\* saved one, effectActive = none implies pickTwoChain = 0 and
\* pickThreeChain = 0.
C24EffectChainConsistency ==
  /\ db # <<>> => ChainsCleared(db[1])
  /\ cache # <<>> => ChainsCleared(cache[1].state)

\* The obligated player has just drawn the penalty of a pick chain, which
\* ended the effect.
C24ChainDrawn ==
  /\ db # <<>>
  /\ out.cmd = "draw"
  /\ Len(out.cards) \in {2, 3}
  /\ db[1].effectActive = Null
  /\ db[1].totalTurns > 0

\* Every player's public cardCount is the length of that player's hand.
CountsMatch(state) ==
  \A i \in 1..Len(state.players) :
     /\ state.players[i].id \in DOMAIN state.playerHands
     /\ state.players[i].cardCount = Len(state.playerHands[state.players[i].id])

\* C25: card count never drifts - in the stored aggregate and in the latest
\* saved one, players[p].cardCount equals the length of playerHands[p.id] for
\* every player p.
C25CardCountMatchesHand ==
  /\ db # <<>> => CountsMatch(db[1])
  /\ cache # <<>> => CountsMatch(cache[1].state)

\* One player's hand has grown by draws and another's has shrunk by plays.
C25HandsGrownAndShrunk ==
  /\ db # <<>>
  /\ \E i, j \in 1..Len(db[1].players) :
        /\ db[1].players[i].cardCount > CardsPerPlayer
        /\ db[1].players[j].cardCount < CardsPerPlayer

\* The number of cards of the deck of a given shape and of rank other than 20.
SuitSize(deck, shape) ==
  Cardinality({i \in 1..Len(deck) : deck[i].shape = shape /\ deck[i].number # WHOT})

\* C26: deck composition - createDeck returns 54 cards with pairwise distinct
\* ids: 12 circle, 12 triangle, 9 cross, 9 square and 7 star cards of rank
\* other than 20, and 5 cards of rank 20; the cards the players hold are
\* cards of that deck.
C26DeckComposition ==
  LET deck == createDeck
  IN  /\ Len(deck) = 54
      /\ \A i, j \in 1..Len(deck) : i # j => deck[i].id # deck[j].id
      /\ SuitSize(deck, "circle") = 12
      /\ SuitSize(deck, "triangle") = 12
      /\ SuitSize(deck, "cross") = 9
      /\ SuitSize(deck, "square") = 9
      /\ SuitSize(deck, "star") = 7
      /\ Cardinality({i \in 1..Len(deck) : deck[i].number = WHOT}) = 5
      /\ \A i \in 1..Len(deck) : deck[i].shape \in ShapeSet
      /\ db # <<>> =>
            \A p \in DOMAIN db[1].playerHands :
               \A k \in 1..Len(db[1].playerHands[p]) :
                  \E i \in 1..Len(deck) : deck[i] = db[1].playerHands[p][k]

\* A start has dealt the whole deck: every card createDeck made is in exactly
\* one hand or pile of the stored aggregate.
C26WholeDeckDealt ==
  /\ db # <<>>
  /\ db[1].totalTurns = 0
  /\ \A i \in 1..Len(createDeck) :
        LET held(cards) == Cardinality({k \in 1..Len(cards) : cards[k] = createDeck[i]})
        IN  held(db[1].marketPile) + held(db[1].discardPile)
              + SeqSum([k \in 1..Len(db[1].players) |->
                          held(db[1].playerHands[db[1].players[k].id])]) = 1

\* C27: suspension - an accepted play (manual or automatic) of a rank-8 card
\* by the player at seat i, whatever the card's shape, sets currentPlayerIndex
\* to (i + 2) mod playerCount.
C27Suspension ==
  [][(left'.plays = left.plays - 1 /\ out'.cards[1].number = SUSPENSION)
       => LET i == findIndex(db[1].players, out'.playerId)
          IN  /\ i = db[1].currentPlayerIndex
              /\ cache'[1].state.currentPlayerIndex = (i + 2) % Len(db[1].players)]_vars

\* C28: Hold On - an accepted play (manual or automatic) of a rank-1 card
\* leaves currentPlayerIndex, pickTwoChain, pickThreeChain and effectActive as
\* they were in the aggregate the handler loaded.
C28HoldOn ==
  [][(left'.plays = left.plays - 1 /\ out'.cards[1].number = HOLD_ON)
       => LET old == db[1]
              new == cache'[1].state
          IN  /\ new.currentPlayerIndex = old.currentPlayerIndex
              /\ new.pickTwoChain = old.pickTwoChain
              /\ new.pickThreeChain = old.pickThreeChain
              /\ new.effectActive = old.effectActive]_vars

\* C29: General Market setup - an accepted play (manual or automatic) of a
\* rank-14 card by player p that does not win the round sets effectActive to
\* general_market, marketDue to the ids of all other players in seat order,
\* generalMarketInitiator to p, and the turn to the seat of the first id in
\* marketDue.
C29MarketSetup ==
  [][(/\ left'.plays = left.plays - 1
      /\ out'.cards[1].number = GENERAL_MARKET
      /\ cache'[1].state.winner = Null)
       => LET new == cache'[1].state
              p == out'.playerId
              seats == {i \in 1..Len(new.players) : new.players[i].id # p}
          IN  /\ new.effectActive = "general_market"
              /\ new.generalMarketInitiator = p
              /\ Len(new.marketDue) = Len(new.players) - 1
              /\ \A k \in 1..Len(new.marketDue) :
                    \E i \in seats :
                       /\ new.marketDue[k] = new.players[i].id
                       /\ Cardinality({j \in seats : j < i}) = k - 1
              /\ new.players[new.currentPlayerIndex + 1].id = new.marketDue[1]]_vars

\* A player who does not sit at the first seat of a three-player round has
\* opened a market, and the turn is at the first seat.
C29MarketOpenedFromLaterSeat ==
  /\ db # <<>>
  /\ Len(db[1].players) = 3
  /\ out.cmd \in {"play", "auto-play"}
  /\ out.cards # <<>>
  /\ out.cards[1].number = GENERAL_MARKET
  /\ db[1].currentCard = out.cards[1]
  /\ db[1].generalMarketInitiator = out.playerId
  /\ out.playerId # db[1].players[1].id
  /\ db[1].currentPlayerIndex = 0
  /\ db[1].winner = Null


\* The ids of the cards of a pile.
CardIds(cards) == {cards[i].id : i \in 1..Len(cards)}

\* What an accepted draw of the player on turn did to the piles of the row
\* `old` it loaded, `new` being the aggregate it saved.
RefillsAsSpecified(old, new, response) ==
  LET p == old.players[old.currentPlayerIndex + 1].id
      owed == DrawCount(old)
      inMarket == Len(old.marketPile)
      below == SubSeq(old.discardPile, 1, Len(old.discardPile) - 1)
      drawn == SubSeq(new.playerHands[p], Len(old.playerHands[p]) + 1,
                      Len(new.playerHands[p]))
      refilled == SubSeq(drawn, inMarket + 1, Len(drawn)) \o new.marketPile
  IN  IF inMarket >= owed
      THEN /\ drawn = SubSeq(old.marketPile, 1, owed)
           /\ new.marketPile = SubSeq(old.marketPile, owed + 1, inMarket)
           /\ new.discardPile = old.discardPile
      ELSE IF Len(old.discardPile) > 1
      THEN /\ new.discardPile = <<old.discardPile[Len(old.discardPile)]>>
           /\ Len(drawn) = Min(owed, inMarket + Len(below))
           /\ SubSeq(drawn, 1, inMarket) = old.marketPile
           /\ Len(refilled) = Len(below)
           /\ CardIds(refilled) = CardIds(below)
      ELSE /\ drawn = old.marketPile
           /\ new.marketPile = <<>>
           /\ new.discardPile = old.discardPile
           /\ response.status = 200
           /\ old.effectActive # "general_market" =>
                /\ new.currentPlayerIndex =
                     (old.currentPlayerIndex + 1) % Len(old.players)
                /\ new.effectActive = Null

\* C30: reshuffle on empty market - a draw (by hand or by timeout) that finds
\* the market short of the cards it owes while the discard pile holds more
\* than one card turns the discard pile below its top card into the new market
\* (the same cards, none lost or added) and leaves the discard pile holding
\* only its former top card; with at most one card in the discard pile the draw
\* takes what the market has, still succeeds and passes the turn as a normal
\* draw does; a draw the market can serve leaves the discard pile alone.
C30ReshuffleOnEmptyMarket ==
  [][(left'.draws = left.draws - 1 /\ db # <<>>) =>
       RefillsAsSpecified(db[1], cache'[1].state, out')]_vars

\* C30 witness: after cards were played, a draw refilled the market from the
\* discard pile, and a later draw found the market and the discard pile both
\* exhausted and came back with no card.
C30RefilledThenShort ==
  /\ db # <<>>
  /\ left.plays < DrainPlays
  /\ Len(db[1].discardPile) = 1
  /\ db[1].marketPile = <<>>
  /\ out.cmd \in {"draw", "auto-play"}
  /\ out.status = 200
  /\ out.cards = <<>>
  /\ out.msgs # <<>>
  /\ out.msgs[1].type = "draw"
  /\ out.msgs[1].cards = <<>>


\* A manual draw of the player on turn was accepted on a row with no effect.
PlainDrawStep ==
  /\ db # <<>>
  /\ db[1].effectActive = Null
  /\ left'.draws = left.draws - 1
  /\ out'.cmd = "draw"

\* What a plain draw leaves alone, and the seat it passes the turn to.
PlainDrawFrame(old, new) ==
  LET p == CurrentPlayer(old)
  IN  /\ new.currentPlayerIndex = (old.currentPlayerIndex + 1) % Len(old.players)
      /\ new.currentCard = old.currentCard
      /\ new.selectedShape = old.selectedShape
      /\ new.rules = old.rules
      /\ new.rulesLocked = old.rulesLocked
      /\ new.winner = old.winner
      /\ new.sessionWins = old.sessionWins
      /\ new.pickTwoChain = old.pickTwoChain
      /\ new.pickThreeChain = old.pickThreeChain
      /\ new.effectActive = Null
      /\ \A q \in DOMAIN old.playerHands \ {p} : new.playerHands[q] = old.playerHands[q]
      /\ DOMAIN new.playerHands = DOMAIN old.playerHands

\* The draw moved exactly one card to the hand of the player on turn: the top
\* of the market, or of the refilled market when the market was empty.
MovedOneCard(old, new) ==
  LET p == CurrentPlayer(old)
      hand == old.playerHands[p]
      grown == new.playerHands[p]
  IN  /\ Len(grown) = Len(hand) + 1
      /\ SubSeq(grown, 1, Len(hand)) = hand
      /\ IF Len(old.marketPile) > 0
         THEN /\ grown[Len(grown)] = Head(old.marketPile)
              /\ new.marketPile = Tail(old.marketPile)
         ELSE /\ grown[Len(grown)].id \in
                   CardIds(SubSeq(old.discardPile, 1, Len(old.discardPile) - 1))
              /\ Len(new.marketPile) = Len(old.discardPile) - 2

\* C31 as stated: plain voluntary draw - a draw by the current player while no
\* effect is active moves one card from the market to that player's hand and
\* advances the turn by one seat, leaving currentCard, selectedShape, rules,
\* rulesLocked, winner, sessionWins, both chain counters and every other hand
\* unchanged.
C31PlainDrawAsStated ==
  [][PlainDrawStep =>
       /\ MovedOneCard(db[1], cache'[1].state)
       /\ PlainDrawFrame(db[1], cache'[1].state)]_vars

\* C31, amended: a draw by the current player while no effect is active moves
\* one card from the market (refilled from the discard pile if empty) to that
\* player's hand, or no card when the market is empty and the discard pile
\* holds only its top card; either way it advances the turn by one seat and
\* leaves currentCard, selectedShape, rules, rulesLocked, winner, sessionWins,
\* both chain counters and every other hand unchanged.
C31PlainDraw ==
  [][PlainDrawStep =>
       /\ IF Len(db[1].marketPile) > 0 \/ Len(db[1].discardPile) > 1
          THEN MovedOneCard(db[1], cache'[1].state)
          ELSE /\ cache'[1].state.playerHands = db[1].playerHands
               /\ cache'[1].state.marketPile = <<>>
               /\ cache'[1].state.discardPile = db[1].discardPile
       /\ PlainDrawFrame(db[1], cache'[1].state)]_vars

\* C31 witness: a plain draw handed the drawer one card while a declared shape
\* was in force, and the shape is still in force.
C31DrewOneUnderDeclaredShape ==
  /\ db # <<>>
  /\ out.cmd = "draw"
  /\ out.status = 200
  /\ Len(out.cards) = 1
  /\ db[1].effectActive = Null
  /\ db[1].selectedShape # Null
  /\ db[1].winner = Null
  /\ HandHasId(db[1].playerHands[out.playerId], out.cards[1].id)


\* C32: chain initiator tracking - after a play that activates pick_two or
\* pick_three from a state with no active effect, pickEffectInitiator is the id
\* of the player who played it, and no later step changes it while that chain
\* is active.
C32ChainInitiatorTracking ==
  [][/\ (/\ db # <<>>
         /\ db[1].effectActive = Null
         /\ left'.plays = left.plays - 1
         /\ cache'[1].state.effectActive \in {"pick_two", "pick_three"})
        => cache'[1].state.pickEffectInitiator = out'.playerId
     /\ (/\ db # <<>>
         /\ cache' # <<>>
         /\ left'.starts = left.starts
         /\ db[1].effectActive \in {"pick_two", "pick_three"}
         /\ cache'[1].state.effectActive = db[1].effectActive)
        => cache'[1].state.pickEffectInitiator = db[1].pickEffectInitiator]_vars


\* An effect that obliges the player on turn is active in a round that is on.
EffectPending ==
  /\ db # <<>>
  /\ db[1].winner = Null
  /\ db[1].effectActive \in {"pick_two", "pick_three", "general_market"}

\* The player on turn of a round that is on has a request that is accepted.
TurnCanBeTaken ==
  (db # <<>> /\ db[1].winner = Null) =>
     /\ db[1].currentPlayerIndex \in 0..(Len(db[1].players) - 1)
     /\ \E order \in ReshuffleOrders :
          drawCards(db[1], CurrentPlayer(db[1]), order).ok

\* C33 as stated: no stuck effect - from any reachable state without a winner
\* in which pick_two, pick_three or general_market is active, if the turn is
\* always eventually acted on, the game eventually reaches a state with no
\* effect active; and in every reachable state without a winner the player on
\* turn has a request that is accepted.
C33NoStuckEffectAsStated ==
  /\ [] TurnCanBeTaken
  /\ EffectPending ~> (db # <<>> /\ db[1].effectActive = Null)

\* C33, amended: from any reachable state without a winner in which pick_two,
\* pick_three or general_market is active, if the turn is always eventually
\* acted on, the game eventually reaches a state with no effect active or a
\* state with a winner (the round may be won on a card that keeps the effect
\* active); and in every reachable state without a winner the player on turn
\* has a request that is accepted.
C33NoStuckEffect ==
  /\ [] TurnCanBeTaken
  /\ EffectPending ~> (db # <<>> /\ (db[1].effectActive = Null \/ db[1].winner # Null))

\* C33 witness: a pick_two chain was ended by the timeout's penalty draw, and
\* the round goes on with no effect active.
C33ChainEndedByTimeout ==
  /\ db # <<>>
  /\ db[1].winner = Null
  /\ db[1].effectActive = Null
  /\ out.cmd = "auto-play"
  /\ out.msgs # <<>>
  /\ out.msgs[1].type = "draw"
  /\ Len(out.msgs[1].cards) >= 2


\* C34: while general_market is active, no play is accepted from the queued
\* victim whose turn it is (the victim can only draw); so from one saved
\* aggregate to the next marketDue only loses ids, and generalMarketInitiator
\* stays the same for as long as the market is active.
C34MarketVictimCannotPlay ==
  [][(/\ db # <<>>
      /\ cache' # <<>>
      /\ left'.starts = left.starts
      /\ db[1].winner = Null
      /\ db[1].effectActive = "general_market"
      /\ cache'[1].state # db[1])
     => /\ left'.plays = left.plays
        /\ Len(cache'[1].state.marketDue) < Len(db[1].marketDue)
        /\ \A i \in 1..Len(cache'[1].state.marketDue) :
              \E j \in 1..Len(db[1].marketDue) :
                 cache'[1].state.marketDue[i] = db[1].marketDue[j]
        /\ cache'[1].state.effectActive = "general_market" =>
              cache'[1].state.generalMarketInitiator = db[1].generalMarketInitiator]_vars


\* The card of `hand` with the id `cid`.
HeldCard(hand, cid) == CHOOSE c \in {hand[i] : i \in 1..Len(hand)} : c.id = cid

\* C35: the card a successful play puts on the discard pile and sets as
\* currentCard has the shape and rank of the card with the same id that was in
\* the player's hand, and that held card was legal on the table (a Whot, a
\* match of the declared shape, or a match of the current card's shape or
\* rank), whatever the request body states for the id.
C35PlayedCardIsHeldCard ==
  [][(/\ db # <<>>
      /\ left'.plays = left.plays - 1
      /\ out'.cmd = "play")
     => LET old == db[1]
            new == cache'[1].state
            held == HeldCard(old.playerHands[out'.playerId], new.currentCard.id)
        IN  /\ new.currentCard = held
            /\ new.discardPile = Append(old.discardPile, held)
            /\ canPlayCard(held, old.currentCard, old.selectedShape)]_vars


\* C36: the background flush never replaces a newer aggregate with an older
\* one - once saveGameState has put a newer state in the cache while the flush
\* was waiting for its write, no step of the flush changes that cache entry
\* (its state and its pendingWrite mark), and none replaces the stored row a
\* later command wrote with the state the flush holds.
C36FlushKeepsNewer ==
  [][(/\ flight # <<>>
      /\ left' = left
      /\ cache[1].state # flight[1].stored[1].state)
     => /\ cache' = cache
        /\ (db # <<>> /\ db[1] = cache[1].state) => db' = db]_vars


\* The winner of the latest saved aggregate (Null when there is none).
SavedWinner == IF cache = <<>> THEN Null ELSE cache[1].state.winner

\* C37: sessionWins of a player increases by exactly one per round that player
\* wins, and winner, once set, does not change until the next start - from one
\* saved aggregate to the next, a winner that is set stays with the tally as
\* it is, and a winner that becomes set adds one to that player's tally and
\* nothing to the others' - also when the winning play overlaps an auto-play
\* request for the same turn.
C37WinsCountedOnce ==
  [][(cache' # <<>> /\ left'.starts = left.starts)
     => /\ SavedWinner # Null
           => /\ cache'[1].state.winner = SavedWinner
              /\ cache'[1].state.sessionWins = PriorWins
        /\ (SavedWinner = Null /\ cache'[1].state.winner # Null)
           => cache'[1].state.sessionWins =
                 IncrementWins(PriorWins, cache'[1].state.winner)
        /\ (SavedWinner = Null /\ cache'[1].state.winner = Null)
           => cache'[1].state.sessionWins = PriorWins]_vars


\* The card on the table of `state` is the top of its discard pile.
TableIsTopOfPile(state) ==
  /\ Len(state.discardPile) > 0
  /\ state.discardPile[Len(state.discardPile)] = state.currentCard

\* C38: in every reachable state the discard pile is non-empty and its last
\* element is currentCard, in the stored row and in the latest saved
\* aggregate, right after start and after a market refill included.
C38CurrentCardOnTop ==
  /\ db # <<>> => TableIsTopOfPile(db[1])
  /\ cache # <<>> => TableIsTopOfPile(cache[1].state)

\* C38 witness: cards were played, a draw refilled the market from the discard
\* pile, and the pile now holds the current card alone above a market that
\* still has a recycled card.
C38OnTopAfterRefill ==
  /\ db # <<>>
  /\ left.plays < DrainPlays
  /\ db[1].discardPile = <<db[1].currentCard>>
  /\ Len(db[1].marketPile) > 0
  /\ db[1].totalTurns > 0


\* The chain counter of the active pick effect is at least 1, the other one is
\* 0, and the penalty draw it obliges is not of zero cards.
ChainMatchesEffect(state) ==
  /\ state.effectActive = "pick_two" =>
       /\ state.pickTwoChain >= 1
       /\ state.pickThreeChain = 0
       /\ DrawCount(state) >= 2
  /\ state.effectActive = "pick_three" =>
       /\ state.pickThreeChain >= 1
       /\ state.pickTwoChain = 0
       /\ DrawCount(state) >= 3

\* C39: whenever effectActive is pick_two, pickTwoChain >= 1 and
\* pickThreeChain = 0, and whenever it is pick_three, pickThreeChain >= 1 and
\* pickTwoChain = 0, in the stored row and in the latest saved aggregate; so
\* an obligated penalty draw is never of zero cards, also when the effect
\* comes from the start card.
C39ChainMatchesEffect ==
  /\ db # <<>> => ChainMatchesEffect(db[1])
  /\ cache # <<>> => ChainMatchesEffect(cache[1].state)

\* C39 witness: the round opened on a pick card, and after cards were played
\* a pick effect of the other rank is active.
C39OtherRankAfterPickStart ==
  /\ db # <<>>
  /\ db[1].totalTurns > 0
  /\ db[1].discardPile[1].number \in {PICK_TWO, PICK_THREE}
  /\ db[1].effectActive \in {"pick_two", "pick_three"}
  /\ (db[1].effectActive = "pick_two") = (db[1].discardPile[1].number = PICK_THREE)
  /\ db[1].rules.pickThree

====
